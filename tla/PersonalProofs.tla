--------------------------- MODULE PersonalProofs ---------------------------
(***************************************************************************)
(* What the Personal edition does to itself.  Its updater, wherever it is  *)
(* cut off, and however often: the installation is one whole release or    *)
(* the transaction file calls for Recover, a rollback brings back the      *)
(* release that was there, and no update moves backwards.  Its attended    *)
(* backup: the rows and the objects of a bundle agree, and a backup that   *)
(* is reported as successful can be restored.  The two specifications      *)
(* share no state.                                                         *)
(***************************************************************************)
EXTENDS Update, Backup, Integers, FiniteSetTheorems, SequenceTheorems, TLAPS

-----------------------------------------------------------------------------
(* The updater.                                                            *)

States == {"none", "prepared", "migrated", "candidate_failed", "committed", "rolled_back"}

Transactions ==
  [state : States, prior : Nat, candidate : Nat, contract : Nat, release : Nat,
   schema_changing : BOOLEAN]

Memories ==
  [contract : Nat, sequence : Nat, manifest : Nat, artifacts : SUBSET Nat, prior : Nat]

\* Where the updater is in its steps.
Position ==
  \/ mode = "none" /\ at = 0
  \/ mode = "prepare" /\ at \in 1..6
  \/ mode = "install" /\ at \in 1..9
  \/ mode = "rollback" /\ at \in 1..8
  \/ mode = "recover" /\ at \in 1..6

Types ==
  /\ channel \in Releases
  /\ env \in [EnvFiles -> Roots]
  /\ contract \in Roots /\ journal \in Roots /\ shortcuts \in Roots
  /\ sequence \in Nat
  /\ db \in Nat
  /\ txn \in Transactions
  /\ txn.prior \in Roots /\ txn.candidate \in Roots /\ txn.contract \in Roots
  /\ unpacked \in [Roots -> Releases \cup {0}]
  /\ mem \in Memories
  /\ overwritten \in BOOLEAN
  /\ Position

\* Release directories are named in the order they are unpacked.
RootsInOrder == Candidate \in Nat \ {0} /\ Roots = 0..(Candidate - 1)

-----------------------------------------------------------------------------
\* What a preparing run has read is still so; the root it has unpacked is a new one.
Preparing ==
  mode = "prepare" =>
    /\ mem.prior = journal /\ mem.contract = contract /\ mem.sequence = sequence
    /\ mem.manifest \in Releases
    /\ at = 6 => unpacked[Candidate - 1] = mem.manifest /\ journal # Candidate - 1

\* The installation is touched only while the transaction is unfinished, and moved only
\* to a release that is newer.
Installing ==
  /\ mode \in {"install", "rollback", "recover"} => Unfinished
  /\ Unfinished => txn.release \in Releases /\ unpacked[txn.candidate] = txn.release
  /\ mode = "install" /\ at <= 8 => txn.release > sequence

\* No transaction is open: all of the installation is the release of the journal.
Settled ==
  ~overwritten /\ ~Unfinished =>
    Whole(journal) /\ (txn.state = "rolled_back" => journal = txn.prior)

\* A transaction is open: it names all that is needed to go back.
Recoverable ==
  ~overwritten /\ Unfinished =>
    /\ txn.prior # txn.candidate /\ txn.contract = txn.prior
    /\ \A f \in EnvFiles : env[f] \in {txn.prior, txn.candidate}
    /\ ~txn.schema_changing => /\ db = Revision[unpacked[txn.prior]]
                               /\ db = Revision[txn.release]

EnvAt(r) == \A f \in EnvFiles : env[f] = r

\* What a run has done by the step it is at.
Progress ==
  ~overwritten =>
    /\ mode = "install" =>
         /\ at > 1 => db = Revision[txn.release]
         /\ at > 3 => EnvAt(txn.candidate)
         /\ at > 5 => contract = txn.candidate /\ ~torn
         /\ at > 6 => journal = txn.candidate
         /\ at > 7 => shortcuts = txn.candidate
    /\ mode = "rollback" =>
         /\ at > 2 => EnvAt(txn.prior)
         /\ at > 3 => contract = txn.prior /\ ~torn
         /\ at > 4 => journal = txn.prior
         /\ at > 5 => shortcuts = txn.prior
         /\ at > 6 => db = Revision[unpacked[txn.prior]]
    /\ mode = "recover" =>
         /\ at > 1 => EnvAt(txn.prior)
         /\ at > 2 => contract = txn.prior /\ ~torn
         /\ at > 3 => db = Revision[unpacked[txn.prior]]
         /\ at > 4 => journal = txn.prior
         /\ at > 5 => shortcuts = txn.prior

Inv == Types /\ RootsInOrder /\ Preparing /\ Installing /\ Settled /\ Recoverable /\ Progress

-----------------------------------------------------------------------------
(* The steps and their order.                                              *)

\* Where each step stands in the runs that have it.
LEMMA PrepareAt ==
  ASSUME mode = "prepare", at \in 1..6
  PROVE  /\ Len(Steps(mode)) = 6
         /\ At("download") <=> at \in {1, 2}
         /\ At("verify") <=> at = 3
         /\ At("trust") <=> at = 4
         /\ At("unpack") <=> at = 5
         /\ At("prepare") <=> at = 6
         /\ \A s \in {"migrate", "migrated", "paths", "ready", "contract", "journal",
                      "shortcuts", "state", "commit", "mark", "database", "done"} : ~At(s)
<1>1. Steps(mode) = PrepareSteps
  BY DEF Steps
<1> QED
  BY <1>1 DEF At, PrepareSteps

LEMMA InstallAt ==
  ASSUME mode = "install", at \in 1..9
  PROVE  /\ Len(Steps(mode)) = 9
         /\ At("migrate") <=> at = 1
         /\ At("migrated") <=> at = 2
         /\ At("paths") <=> at = 3
         /\ At("ready") <=> at = 4
         /\ At("contract") <=> at = 5
         /\ At("journal") <=> at = 6
         /\ At("shortcuts") <=> at = 7
         /\ At("state") <=> at = 8
         /\ At("commit") <=> at = 9
         /\ \A s \in {"download", "verify", "trust", "unpack", "prepare", "mark", "database",
                      "done"} : ~At(s)
<1>1. Steps(mode) = InstallSteps
  BY DEF Steps
<1> QED
  BY <1>1 DEF At, InstallSteps

LEMMA RollbackAt ==
  ASSUME mode = "rollback", at \in 1..8
  PROVE  /\ Len(Steps(mode)) = 8
         /\ At("mark") <=> at = 1
         /\ At("paths") <=> at = 2
         /\ At("contract") <=> at = 3
         /\ At("journal") <=> at = 4
         /\ At("shortcuts") <=> at = 5
         /\ At("database") <=> at = 6
         /\ At("ready") <=> at = 7
         /\ At("done") <=> at = 8
         /\ \A s \in {"download", "verify", "trust", "unpack", "prepare", "migrate", "migrated",
                      "state", "commit"} : ~At(s)
<1>1. Steps(mode) = RollbackSteps
  BY DEF Steps
<1> QED
  BY <1>1 DEF At, RollbackSteps

LEMMA RecoverAt ==
  ASSUME mode = "recover", at \in 1..6
  PROVE  /\ Len(Steps(mode)) = 6
         /\ At("paths") <=> at = 1
         /\ At("contract") <=> at = 2
         /\ At("database") <=> at = 3
         /\ At("journal") <=> at = 4
         /\ At("shortcuts") <=> at = 5
         /\ At("done") <=> at = 6
         /\ \A s \in {"download", "verify", "trust", "unpack", "prepare", "migrate", "migrated",
                      "state", "commit", "mark", "ready"} : ~At(s)
<1>1. Steps(mode) = RecoverSteps
  BY DEF Steps
<1> QED
  BY <1>1 DEF At, RecoverSteps

\* A step belongs to some run.
LEMMA AtSome ==
  ASSUME Position, NEW s, At(s)
  PROVE  \/ mode = "prepare" /\ at \in 1..6
         \/ mode = "install" /\ at \in 1..9
         \/ mode = "rollback" /\ at \in 1..8
         \/ mode = "recover" /\ at \in 1..6
BY DEF Position, At

\* The runs that move the installation, and the step each is at.
LEMMA MovesAt ==
  ASSUME Position
  PROVE  /\ At("migrate") => mode = "install" /\ at = 1
         /\ At("migrated") => mode = "install" /\ at = 2
         /\ At("paths") => \/ mode = "install" /\ at = 3
                           \/ mode = "rollback" /\ at = 2
                           \/ mode = "recover" /\ at = 1
         /\ At("ready") => \/ mode = "install" /\ at = 4
                           \/ mode = "rollback" /\ at = 7
         /\ At("contract") => \/ mode = "install" /\ at = 5
                              \/ mode = "rollback" /\ at = 3
                              \/ mode = "recover" /\ at = 2
         /\ At("journal") => \/ mode = "install" /\ at = 6
                             \/ mode = "rollback" /\ at = 4
                             \/ mode = "recover" /\ at = 4
         /\ At("shortcuts") => \/ mode = "install" /\ at = 7
                               \/ mode = "rollback" /\ at = 5
                               \/ mode = "recover" /\ at = 5
         /\ At("state") => mode = "install" /\ at = 8
         /\ At("commit") => mode = "install" /\ at = 9
         /\ At("mark") => mode = "rollback" /\ at = 1
         /\ At("database") => \/ mode = "rollback" /\ at = 6
                              \/ mode = "recover" /\ at = 3
         /\ At("done") => \/ mode = "rollback" /\ at = 8
                          \/ mode = "recover" /\ at = 6
<1>1. CASE mode = "none"
  BY <1>1 DEF At
<1>2. CASE mode = "prepare" /\ at \in 1..6
  BY <1>2, PrepareAt
<1>3. CASE mode = "install" /\ at \in 1..9
  BY <1>3, InstallAt
<1>4. CASE mode = "rollback" /\ at \in 1..8
  BY <1>4, RollbackAt
<1>5. CASE mode = "recover" /\ at \in 1..6
  BY <1>5, RecoverAt
<1> QED
  BY <1>1, <1>2, <1>3, <1>4, <1>5 DEF Position

AtLast ==
  \/ mode = "prepare" /\ at = 6
  \/ mode = "install" /\ at = 9
  \/ mode = "rollback" /\ at = 8
  \/ mode = "recover" /\ at = 6

\* A run goes to its next step, or ends after the last.
LEMMA Advanced ==
  ASSUME Position, Advance, mode # "none"
  PROVE  /\ ~AtLast => mode' = mode /\ at' = at + 1 /\ mem' = mem
         /\ AtLast => mode' = "none" /\ at' = 0 /\ mem' = Fresh
<1>1. CASE mode = "prepare" /\ at \in 1..6
  <2>1. Len(Steps(mode)) = 6
    BY <1>1, PrepareAt
  <2>2. IF at < 6 THEN at' = at + 1 /\ mode' = mode /\ mem' = mem ELSE Stop
    BY <2>1 DEF Advance
  <2> QED
    BY <1>1, <2>2 DEF Stop, AtLast
<1>2. CASE mode = "install" /\ at \in 1..9
  <2>1. Len(Steps(mode)) = 9
    BY <1>2, InstallAt
  <2>2. IF at < 9 THEN at' = at + 1 /\ mode' = mode /\ mem' = mem ELSE Stop
    BY <2>1 DEF Advance
  <2> QED
    BY <1>2, <2>2 DEF Stop, AtLast
<1>3. CASE mode = "rollback" /\ at \in 1..8
  <2>1. Len(Steps(mode)) = 8
    BY <1>3, RollbackAt
  <2>2. IF at < 8 THEN at' = at + 1 /\ mode' = mode /\ mem' = mem ELSE Stop
    BY <2>1 DEF Advance
  <2> QED
    BY <1>3, <2>2 DEF Stop, AtLast
<1>4. CASE mode = "recover" /\ at \in 1..6
  <2>1. Len(Steps(mode)) = 6
    BY <1>4, RecoverAt
  <2>2. IF at < 6 THEN at' = at + 1 /\ mode' = mode /\ mem' = mem ELSE Stop
    BY <2>1 DEF Advance
  <2> QED
    BY <1>4, <2>2 DEF Stop, AtLast
<1> QED
  BY <1>1, <1>2, <1>3, <1>4 DEF Position

LEMMA FreshMemory == Fresh \in Memories
BY DEF Fresh, Memories

-----------------------------------------------------------------------------
(* Steps that leave the installation alone.                                *)

\* What the installation, the transaction and the roots are not changed by keeps all but
\* what is said of the run.
LEMMA RunStep ==
  ASSUME Inv, channel' \in Releases, UNCHANGED <<installVars, txn, unpacked, overwritten>>,
         mem' \in Memories, Position', Preparing',
         \/ mode' \in {"none", "prepare"}
         \/ mode' = mode /\ at' = at
         \/ mode' \in {"recover", "rollback"} /\ at' = 1 /\ Unfinished
  PROVE  Inv'
<1> USE DEF installVars
<1>1. Types' /\ RootsInOrder'
  BY DEF Inv, Types, RootsInOrder, Roots, Candidate
<1>2. Installing'
  BY DEF Inv, Installing, Unfinished
<1>3. Settled'
  BY DEF Inv, Settled, Unfinished, Whole
<1>4. Recoverable'
  BY DEF Inv, Recoverable, Unfinished
<1>5. Progress'
  BY DEF Inv, Progress, EnvAt
<1> QED
  BY <1>1, <1>2, <1>3, <1>4, <1>5 DEF Inv

LEMMA WorldStep ==
  ASSUME Inv, channel' \in Releases,
         UNCHANGED <<installVars, txn, unpacked, runVars, overwritten>>
  PROVE  Inv'
<1>1. mem' \in Memories /\ Position'
  BY DEF Inv, Types, Position, runVars
<1>2. Preparing'
  BY DEF Inv, Preparing, runVars, installVars, Candidate, Roots
<1> QED
  BY <1>1, <1>2, RunStep DEF runVars

LEMMA BeginStep ==
  ASSUME Inv, Begin
  PROVE  Inv'
<1>1. mode' = "prepare" /\ at' = 1 /\ Position'
  BY DEF Begin, Goto, Position
<1>2. /\ mem' = [prior |-> journal, contract |-> contract, sequence |-> sequence,
                 manifest |-> channel, artifacts |-> {}]
      /\ UNCHANGED <<channel, env, contract, torn, journal, shortcuts, sequence, db, txn, unpacked,
                     overwritten>>
  BY DEF Begin, InstalledState, worldVars, installVars
<1>3. Roots \subseteq Nat /\ Releases \subseteq Nat
  BY UpdateAssumption DEF Inv, RootsInOrder
<1>4. mem' \in Memories
  BY <1>2, <1>3 DEF Inv, Types, Memories
<1>5. Preparing'
  BY <1>1, <1>2 DEF Inv, Types, Preparing
<1> QED
  BY <1>1, <1>2, <1>4, <1>5, RunStep DEF Inv, Types, installVars

LEMMA DownloadStep ==
  ASSUME Inv, Download
  PROVE  Inv'
<1>1. mode = "prepare" /\ at \in {1, 2}
  <2>1. Position
    BY DEF Inv, Types
  <2> QED
    BY <2>1, AtSome, PrepareAt, InstallAt, RollbackAt, RecoverAt DEF Download
<1>2. mode' = "prepare" /\ at' \in {2, 3} /\ Position'
  BY <1>1 DEF Download, Position
<1>3. /\ mem' \in Memories
      /\ mem'.prior = mem.prior /\ mem'.contract = mem.contract
      /\ mem'.sequence = mem.sequence /\ mem'.manifest = mem.manifest
  BY UpdateAssumption DEF Inv, Types, Memories, Download
<1>4. UNCHANGED <<channel, installVars, txn, unpacked, overwritten>>
  BY DEF Download, worldVars
<1>5. Preparing'
  BY <1>1, <1>2, <1>3, <1>4 DEF Inv, Preparing, installVars
<1> QED
  BY <1>2, <1>3, <1>4, <1>5, RunStep DEF Inv, Types

LEMMA VerifyStep ==
  ASSUME Inv, VerifyUpdate \/ VerifyTrustMetadata
  PROVE  Inv'
<1>0. Position
  BY DEF Inv, Types
<1>1. mode = "prepare" /\ at \in {3, 4}
  BY <1>0, AtSome, PrepareAt, InstallAt, RollbackAt, RecoverAt
     DEF VerifyUpdate, VerifyTrustMetadata
<1>2. mode' = "prepare" /\ at' \in {4, 5} /\ mem' = mem
  BY <1>0, <1>1, Advanced DEF AtLast, VerifyUpdate, VerifyTrustMetadata
<1>3. UNCHANGED <<channel, installVars, txn, unpacked, overwritten>>
  BY DEF VerifyUpdate, VerifyTrustMetadata, worldVars
<1>4. Position' /\ mem' \in Memories
  BY <1>2 DEF Position, Inv, Types
<1>5. Preparing'
  BY <1>1, <1>2, <1>3 DEF Inv, Preparing, installVars
<1> QED
  BY <1>2, <1>3, <1>4, <1>5, RunStep DEF Inv, Types

LEMMA RefuseStep ==
  ASSUME Inv, Refuse
  PROVE  Inv'
<1>1. mode' = "none" /\ at' = 0 /\ mem' \in Memories
  BY FreshMemory DEF Refuse, Stop
<1>2. Position' /\ Preparing'
  BY <1>1 DEF Position, Preparing
<1> QED
  BY <1>1, <1>2, RunStep DEF Refuse, worldVars, Inv, Types

LEMMA RecoverStep ==
  ASSUME Inv, Recover
  PROVE  Inv'
<1>1. mode' = "recover" /\ at' = 1 /\ Unfinished
  BY DEF Recover, Goto
<1>2. Position' /\ Preparing'
  BY <1>1 DEF Position, Preparing
<1> QED
  BY <1>1, <1>2, RunStep DEF Recover, worldVars, Inv, Types

\* A release is unpacked into a root of its own; what is in the others stays.
LEMMA UnpackStep ==
  ASSUME Inv, VerifyPersonalUpdate
  PROVE  Inv'
<1>0. Position /\ RootsInOrder /\ Types
  BY DEF Inv, Types
<1>1. mode = "prepare" /\ at = 5
  BY <1>0, AtSome, PrepareAt, InstallAt, RollbackAt, RecoverAt DEF VerifyPersonalUpdate
<1>2. mode' = "prepare" /\ at' = 6 /\ mem' = mem
  BY <1>0, <1>1, Advanced DEF AtLast, VerifyPersonalUpdate
<1>3. UNCHANGED <<channel, env, contract, torn, journal, shortcuts, sequence, db, txn, overwritten>>
  BY DEF VerifyPersonalUpdate, worldVars, installVars
<1>4. PICK n \in Nat : n = Candidate /\ n > 0 /\ Roots = 0..(n - 1)
  BY <1>0 DEF RootsInOrder
<1>5. Roots \cup {n} = 0..n
  BY <1>4
<1>6. /\ Roots' = 0..n
      /\ unpacked' \in [Roots' -> Releases \cup {0}]
      /\ unpacked'[n] = mem.manifest
      /\ \A r \in Roots : unpacked'[r] = unpacked[r]
  <2>1. mem.manifest \in Releases
    BY <1>1 DEF Inv, Preparing
  <2>2. unpacked' = [r \in Roots \cup {n} |-> IF r \in Roots THEN unpacked[r] ELSE mem.manifest]
    BY <1>4 DEF VerifyPersonalUpdate, Extract
  <2>3. Roots' = Roots \cup {n}
    BY <2>2 DEF Roots
  <2> QED
    BY <1>0, <1>4, <1>5, <2>1, <2>2, <2>3 DEF Types
<1>7. Candidate' = n + 1
  <2>1. Cardinality(0..n) = n + 1
    BY FS_Interval
  <2> QED
    BY <1>6, <2>1 DEF Candidate
<1>8. RootsInOrder'
  BY <1>6, <1>7 DEF RootsInOrder
<1>9. Types'
  BY <1>0, <1>2, <1>3, <1>4, <1>5, <1>6 DEF Types, Position
<1>10. Preparing'
  BY <1>0, <1>1, <1>2, <1>3, <1>4, <1>6, <1>7 DEF Inv, Preparing, Types
<1>11. Installing'
  BY <1>0, <1>2, <1>3, <1>6 DEF Inv, Installing, Unfinished, Types
<1>12. Settled'
  BY <1>0, <1>3, <1>6 DEF Inv, Settled, Unfinished, Whole, Types
<1>13. Recoverable'
  BY <1>0, <1>3, <1>6 DEF Inv, Recoverable, Unfinished, Types
<1>14. Progress'
  BY <1>2 DEF Progress
<1> QED
  BY <1>8, <1>9, <1>10, <1>11, <1>12, <1>13, <1>14 DEF Inv

\* The transaction is written: the installation is whole, or an unfinished one is lost.
LEMMA PrepareStep ==
  ASSUME Inv, Prepare
  PROVE  Inv'
<1>0. Position /\ RootsInOrder /\ Types
  BY DEF Inv, Types
<1>1. mode = "prepare" /\ at = 6
  BY <1>0, AtSome, PrepareAt, InstallAt, RollbackAt, RecoverAt DEF Prepare
<1>2. mode' = "install" /\ at' = 1 /\ mem' = Fresh
  BY DEF Prepare, Goto
<1>3. UNCHANGED <<channel, env, contract, torn, journal, shortcuts, sequence, db, unpacked>>
  BY DEF Prepare, worldVars, installVars
<1>4. PICK n \in Nat : n = Candidate - 1 /\ n \in Roots /\ Roots \subseteq Nat
  BY <1>0 DEF RootsInOrder
<1>5. /\ mem.prior = journal /\ mem.contract = contract /\ mem.sequence = sequence
      /\ mem.manifest \in Releases
      /\ unpacked[n] = mem.manifest /\ journal # n
  BY <1>1, <1>4 DEF Inv, Preparing
<1>6. PICK c \in BOOLEAN : c = SchemaChanging
  BY DEF SchemaChanging
<1>7. txn' = [state |-> "prepared", prior |-> journal, candidate |-> n, contract |-> contract,
              release |-> mem.manifest, schema_changing |-> c]
  BY <1>4, <1>5, <1>6 DEF Prepare
<1>8. txn' \in Transactions
  BY <1>0, <1>4, <1>5, <1>7, UpdateAssumption DEF Transactions, States, Types
<1>9. /\ txn'.state = "prepared" /\ txn'.prior = journal /\ txn'.candidate = n
      /\ txn'.contract = contract /\ txn'.release = mem.manifest
  BY <1>7
<1>10. ~txn'.schema_changing => Revision[unpacked[contract]] = Revision[mem.manifest]
  BY <1>5, <1>6, <1>7 DEF SchemaChanging
<1>11. overwritten' \in BOOLEAN /\ (~overwritten' => ~overwritten /\ ~Unfinished)
  BY <1>0 DEF Prepare, Types
<1>12. Types' /\ RootsInOrder'
  <2>1. Roots' = Roots
    BY <1>3 DEF Roots
  <2>2. txn'.prior \in Roots /\ txn'.candidate \in Roots /\ txn'.contract \in Roots
    BY <1>0, <1>4, <1>9 DEF Types
  <2>3. mem' \in Memories /\ Position'
    BY <1>2, FreshMemory DEF Position
  <2> QED
    BY <1>0, <1>3, <1>8, <1>11, <2>1, <2>2, <2>3 DEF Types, RootsInOrder, Candidate
<1>13. Preparing'
  BY <1>2 DEF Preparing
<1>14. Installing'
  <2>1. mem.manifest > sequence
    BY <1>5 DEF Prepare, Newer
  <2> QED
    BY <1>2, <1>3, <1>5, <1>9, <2>1 DEF Installing, Unfinished
<1>15. Settled'
  BY <1>9 DEF Settled, Unfinished
<1>16. Recoverable'
  <2> SUFFICES ASSUME ~overwritten'
               PROVE  Recoverable'
    BY DEF Recoverable
  <2>1. Whole(journal)
    BY <1>11 DEF Inv, Settled
  <2> QED
    BY <1>3, <1>5, <1>9, <1>10, <2>1 DEF Recoverable, Whole
<1>17. Progress'
  BY <1>2 DEF Progress
<1> QED
  BY <1>12, <1>13, <1>14, <1>15, <1>16, <1>17 DEF Inv

-----------------------------------------------------------------------------
(* Steps that move the installation.                                       *)

\* The transaction keeps all but its state.
SameNames ==
  /\ txn'.prior = txn.prior /\ txn'.candidate = txn.candidate /\ txn'.contract = txn.contract
  /\ txn'.release = txn.release /\ txn'.schema_changing = txn.schema_changing

LEMMA StateSet ==
  ASSUME Types, NEW s \in States, txn' = [txn EXCEPT !.state = s]
  PROVE  txn' \in Transactions /\ SameNames /\ txn'.state = s
<1>1. txn \in Transactions
  BY DEF Types
<1>2. txn' \in Transactions
  BY <1>1 DEF Transactions
<1>3. SameNames /\ txn'.state = s
  BY <1>1 DEF Transactions, SameNames
<1> QED
  BY <1>2, <1>3

LEMMA MoveStep ==
  ASSUME Inv, mode \in {"install", "rollback", "recover"}, mode' = mode, Position',
         UNCHANGED <<channel, mem, unpacked, overwritten>>,
         txn' \in Transactions, SameNames, Unfinished',
         env' \in [EnvFiles -> Roots],
         contract' \in Roots, journal' \in Roots, shortcuts' \in Roots,
         sequence' \in Nat, db' \in Nat,
         mode = "install" /\ at' <= 8 => txn.release > sequence',
         Recoverable', Progress'
  PROVE  Inv'
<1>0. Roots' = Roots
  BY DEF Roots
<1>1. Types' /\ RootsInOrder'
  BY <1>0 DEF Inv, Types, SameNames, RootsInOrder, Candidate
<1>2. Preparing'
  BY DEF Preparing
<1>3. Installing'
  BY DEF Inv, Installing, SameNames
<1>4. Settled'
  BY DEF Settled
<1> QED
  BY <1>1, <1>2, <1>3, <1>4 DEF Inv

\* What holds at the start of a step of such a run.
LEMMA Moving ==
  ASSUME Inv, mode \in {"install", "rollback", "recover"}
  PROVE  /\ Unfinished
         /\ txn \in Transactions
         /\ txn.prior \in Roots /\ txn.candidate \in Roots /\ txn.contract \in Roots
         /\ txn.release \in Releases /\ unpacked[txn.candidate] = txn.release
         /\ Revision[txn.release] \in Nat
         /\ Revision[unpacked[txn.contract]] \in Nat
         /\ To \in Roots
         /\ Backward <=> mode # "install"
<1>1. /\ Unfinished
      /\ txn.release \in Releases /\ unpacked[txn.candidate] = txn.release
  BY DEF Inv, Installing
<1>2. /\ txn \in Transactions
      /\ txn.prior \in Roots /\ txn.candidate \in Roots /\ txn.contract \in Roots
      /\ unpacked[txn.contract] \in Releases \cup {0}
  BY DEF Inv, Types
<1> QED
  BY <1>1, <1>2, UpdateAssumption DEF To, Backward

LEMMA MigrateStep ==
  ASSUME Inv, Migrate
  PROVE  Inv'
<1>0. Position
  BY DEF Inv, Types
<1>1. mode = "install" /\ at = 1
  BY <1>0, MovesAt DEF Migrate
<1>2. mode' = "install" /\ at' = 2 /\ mem' = mem /\ Position'
  BY <1>0, <1>1, Advanced DEF AtLast, Migrate, Position
<1>3. UNCHANGED <<channel, env, contract, torn, journal, shortcuts, sequence, txn, unpacked, overwritten>>
  BY DEF Migrate, worldVars
<1>4. /\ txn.schema_changing => db' = Revision[txn.release]
      /\ ~txn.schema_changing => db' = db
  BY DEF Migrate
<1>5. db' \in Nat
  BY <1>1, <1>4, Moving DEF Inv, Types
<1>6. Recoverable'
  BY <1>3, <1>4 DEF Inv, Recoverable, Unfinished
<1>7. Progress'
  <2> SUFFICES ASSUME ~overwritten'
               PROVE  db' = Revision[txn.release]
    BY <1>2, <1>3 DEF Progress
  <2> QED
    BY <1>1, <1>3, <1>4, Moving DEF Inv, Recoverable
<1>8. Unfinished' /\ SameNames
  BY <1>1, <1>3, Moving DEF Unfinished, SameNames
<1>9. txn.release > sequence
  BY <1>1 DEF Inv, Installing
<1> QED
  BY <1>1, <1>2, <1>3, <1>5, <1>6, <1>7, <1>8, <1>9, MoveStep DEF Inv, Types

\* The state of the transaction is written; the files stay as they are.
LEMMA MarkStep ==
  ASSUME Inv, NEW s \in {"prepared", "migrated", "candidate_failed"},
         (mode = "install" /\ at = 2) \/ (mode = "rollback" /\ at = 1),
         txn' = [txn EXCEPT !.state = s], mode' = mode, at' = at + 1, mem' = mem,
         UNCHANGED <<channel, installVars, unpacked, overwritten>>
  PROVE  Inv'
<1> USE DEF installVars
<1>0. Types
  BY DEF Inv
<1>1. txn' \in Transactions /\ SameNames /\ txn'.state = s
  BY <1>0, StateSet DEF States
<1>2. Position'
  BY DEF Position
<1>3. Unfinished'
  BY <1>1 DEF Unfinished
<1>4. Recoverable'
  BY <1>1, Moving DEF Inv, Recoverable, SameNames
<1>5. Progress'
  BY <1>1 DEF Inv, Progress, SameNames, EnvAt
<1>6. mode = "install" => txn.release > sequence
  BY DEF Inv, Installing
<1> QED
  BY <1>0, <1>1, <1>2, <1>3, <1>4, <1>5, <1>6, MoveStep DEF Types

LEMMA MigratedStep ==
  ASSUME Inv, Migrated
  PROVE  Inv'
<1>0. Position /\ txn \in Transactions
  BY DEF Inv, Types
<1>1. At("migrated") /\ Advance
  BY DEF Migrated, SetState
<1>2. mode = "install" /\ at = 2
  BY <1>0, <1>1, MovesAt
<1>3. mode' = mode /\ at' = at + 1 /\ mem' = mem
  BY <1>0, <1>1, <1>2, Advanced DEF AtLast
<1>4. PICK s \in {"prepared", "migrated", "candidate_failed"} : txn' = [txn EXCEPT !.state = s]
  <2>1. Unfinished
    BY <1>2, Moving
  <2> QED
    BY <2>1 DEF Migrated, SetState, Unfinished
<1>5. UNCHANGED <<channel, installVars, unpacked, overwritten>>
  BY DEF Migrated, SetState, worldVars
<1> QED
  BY <1>2, <1>3, <1>4, <1>5, MarkStep

LEMMA MarkFailedStep ==
  ASSUME Inv, MarkFailed
  PROVE  Inv'
<1>0. Position
  BY DEF Inv, Types
<1>1. mode = "rollback" /\ at = 1
  BY <1>0, MovesAt DEF MarkFailed, SetState
<1>2. mode' = mode /\ at' = at + 1 /\ mem' = mem
  BY <1>0, <1>1, Advanced DEF AtLast, MarkFailed, SetState
<1>3. PICK s \in {"prepared", "migrated", "candidate_failed"} : txn' = [txn EXCEPT !.state = s]
  BY DEF MarkFailed, SetState
<1>4. UNCHANGED <<channel, installVars, unpacked, overwritten>>
  BY DEF MarkFailed, SetState, worldVars
<1> QED
  BY <1>1, <1>2, <1>3, <1>4, MarkStep

\* The environment files name one of the two roots; when none is left that names the one
\* they all name the other.
LEMMA PathsStep ==
  ASSUME Inv, SetReleasePaths
  PROVE  Inv'
<1>0. Position /\ Types
  BY DEF Inv, Types
<1>1. \/ mode = "install" /\ at = 3
      \/ mode = "rollback" /\ at = 2
      \/ mode = "recover" /\ at = 1
  BY <1>0, MovesAt DEF SetReleasePaths
<1>2. UNCHANGED <<channel, contract, torn, journal, shortcuts, sequence, db, txn, unpacked, overwritten>>
  BY DEF SetReleasePaths, worldVars
<1>3. Unfinished' /\ SameNames /\ To \in Roots /\ txn' \in Transactions
  BY <1>1, <1>2, Moving DEF Unfinished, SameNames
<1>4. mode = "install" => txn.release > sequence
  BY <1>1 DEF Inv, Installing
<1>5. /\ ~Backward => From = txn.prior /\ To = txn.candidate
      /\ Backward => From = txn.candidate /\ To = txn.prior
      /\ Backward <=> mode # "install"
  BY <1>1, Moving DEF From, To
<1>6. CASE \E f \in EnvFiles : /\ env' = [env EXCEPT ![f] = To]
                               /\ UNCHANGED <<mode, at, mem>>
  <2>1. PICK f \in EnvFiles : env' = [env EXCEPT ![f] = To]
    BY <1>6
  <2>2. env' \in [EnvFiles -> Roots] /\ \A g \in EnvFiles : env'[g] \in {env[g], To}
    BY <1>0, <1>3, <2>1 DEF Types
  <2>3. Recoverable'
    BY <1>2, <1>5, <2>2 DEF Inv, Recoverable, Unfinished
  <2>4. Progress'
    BY <1>1, <1>2, <1>6 DEF Inv, Progress
  <2>5. Position'
    BY <1>0, <1>6 DEF Position
  <2> QED
    BY <1>0, <1>1, <1>2, <1>3, <1>4, <1>6, <2>2, <2>3, <2>4, <2>5, MoveStep DEF Types
<1>7. CASE /\ {f \in EnvFiles : env[f] = From /\ From # To} = {}
           /\ Advance /\ UNCHANGED env
  <2>1. mode' = mode /\ at' = at + 1 /\ mem' = mem
    BY <1>0, <1>1, <1>7, Advanced DEF AtLast
  <2>2. Position'
    BY <1>1, <2>1 DEF Position
  <2>3. Recoverable'
    BY <1>2, <1>7 DEF Inv, Recoverable, Unfinished
  <2>4. ~overwritten => EnvAt(To)
    <3>1. Unfinished
      BY <1>1, Moving
    <3> QED
      BY <1>5, <1>7, <3>1 DEF Inv, Recoverable, EnvAt
  <2>5. Progress'
    <3>1. ~overwritten => \A f \in EnvFiles : env'[f] = To
      BY <1>7, <2>4 DEF EnvAt
    <3>2. CASE mode = "install"
      BY <1>1, <1>2, <1>5, <2>1, <3>1, <3>2 DEF Inv, Progress, EnvAt
    <3>3. CASE mode # "install"
      BY <1>1, <1>2, <1>5, <2>1, <3>1, <3>3 DEF Inv, Progress, EnvAt
    <3> QED
      BY <3>2, <3>3
  <2> QED
    BY <1>0, <1>1, <1>2, <1>3, <1>4, <1>7, <2>1, <2>2, <2>3, <2>5, MoveStep DEF Types
<1> QED
  BY <1>6, <1>7 DEF SetReleasePaths

LEMMA ReadinessStep ==
  ASSUME Inv, CandidateReadiness
  PROVE  Inv'
<1>0. Position /\ Types
  BY DEF Inv, Types
<1>1. \/ mode = "install" /\ at = 4
      \/ mode = "rollback" /\ at = 7
  BY <1>0, MovesAt DEF CandidateReadiness
<1>2. mode' = mode /\ at' = at + 1 /\ mem' = mem /\ Position'
  BY <1>0, <1>1, Advanced DEF AtLast, CandidateReadiness, Position
<1>3. UNCHANGED <<channel, env, contract, torn, journal, shortcuts, sequence, db, txn, unpacked,
                  overwritten>>
  BY DEF CandidateReadiness, worldVars, installVars
<1>4. Unfinished' /\ SameNames
  BY <1>1, <1>3, Moving DEF Unfinished, SameNames
<1>5. mode = "install" => txn.release > sequence
  BY <1>1 DEF Inv, Installing
<1>6. Recoverable'
  BY <1>3 DEF Inv, Recoverable, Unfinished
<1>7. Progress'
  BY <1>1, <1>2, <1>3 DEF Inv, Progress, EnvAt
<1> QED
  BY <1>0, <1>1, <1>2, <1>3, <1>4, <1>5, <1>6, <1>7, MoveStep DEF Types

\* The step each file of the installation is written in.
LEMMA ContractStep ==
  ASSUME Inv, CopyContract
  PROVE  Inv'
<1>0. Position /\ Types
  BY DEF Inv, Types
<1>1. \/ mode = "install" /\ at = 5
      \/ mode = "rollback" /\ at = 3
      \/ mode = "recover" /\ at = 2
  BY <1>0, MovesAt DEF CopyContract
<1>2. mode' = mode /\ at' = at + 1 /\ mem' = mem /\ Position'
  BY <1>0, <1>1, Advanced DEF AtLast, CopyContract, Position
<1>3. UNCHANGED <<channel, env, journal, shortcuts, sequence, db, txn, unpacked, overwritten>>
  BY DEF CopyContract, worldVars
<1>4. Unfinished /\ Unfinished' /\ SameNames
  BY <1>1, <1>3, Moving DEF Unfinished, SameNames
<1>5. mode = "install" => txn.release > sequence
  BY <1>1 DEF Inv, Installing
<1>6. Recoverable'
  BY <1>3 DEF Inv, Recoverable, Unfinished
<1>7. ~torn' /\ contract' = IF mode = "install" THEN txn.candidate ELSE txn.contract
  BY <1>1, Moving DEF CopyContract, To
<1>8. ~overwritten => txn.contract = txn.prior
  BY <1>4 DEF Inv, Recoverable
<1>9. Progress'
  BY <1>1, <1>2, <1>3, <1>7, <1>8 DEF Inv, Progress, EnvAt
<1>10. contract' \in Roots
  BY <1>0, <1>7 DEF Types
<1> QED
  BY <1>0, <1>1, <1>2, <1>3, <1>4, <1>5, <1>6, <1>9, <1>10, MoveStep DEF Types

LEMMA JournalStep ==
  ASSUME Inv, SaveJournal
  PROVE  Inv'
<1>0. Position /\ Types
  BY DEF Inv, Types
<1>1. \/ mode = "install" /\ at = 6
      \/ mode = "rollback" /\ at = 4
      \/ mode = "recover" /\ at = 4
  BY <1>0, MovesAt DEF SaveJournal
<1>2. mode' = mode /\ at' = at + 1 /\ mem' = mem /\ Position'
  BY <1>0, <1>1, Advanced DEF AtLast, SaveJournal, Position
<1>3. UNCHANGED <<channel, env, contract, torn, shortcuts, sequence, db, txn, unpacked, overwritten>>
  BY DEF SaveJournal, worldVars
<1>4. Unfinished' /\ SameNames
  BY <1>1, <1>3, Moving DEF Unfinished, SameNames
<1>5. mode = "install" => txn.release > sequence
  BY <1>1 DEF Inv, Installing
<1>6. Recoverable'
  BY <1>3 DEF Inv, Recoverable, Unfinished
<1>7. journal' = IF mode = "install" THEN txn.candidate ELSE txn.prior
  BY <1>1, Moving DEF SaveJournal, To
<1>8. Progress'
  BY <1>1, <1>2, <1>3, <1>7 DEF Inv, Progress, EnvAt
<1>9. journal' \in Roots
  BY <1>0, <1>7 DEF Types
<1> QED
  BY <1>0, <1>1, <1>2, <1>3, <1>4, <1>5, <1>6, <1>8, <1>9, MoveStep DEF Types

LEMMA ShortcutsStep ==
  ASSUME Inv, SetShortcuts
  PROVE  Inv'
<1>0. Position /\ Types
  BY DEF Inv, Types
<1>1. \/ mode = "install" /\ at = 7
      \/ mode = "rollback" /\ at = 5
      \/ mode = "recover" /\ at = 5
  BY <1>0, MovesAt DEF SetShortcuts
<1>2. mode' = mode /\ at' = at + 1 /\ mem' = mem /\ Position'
  BY <1>0, <1>1, Advanced DEF AtLast, SetShortcuts, Position
<1>3. UNCHANGED <<channel, env, contract, torn, journal, sequence, db, txn, unpacked, overwritten>>
  BY DEF SetShortcuts, worldVars
<1>4. Unfinished' /\ SameNames
  BY <1>1, <1>3, Moving DEF Unfinished, SameNames
<1>5. mode = "install" => txn.release > sequence
  BY <1>1 DEF Inv, Installing
<1>6. Recoverable'
  BY <1>3 DEF Inv, Recoverable, Unfinished
<1>7. shortcuts' = IF mode = "install" THEN txn.candidate ELSE txn.prior
  BY <1>1, Moving DEF SetShortcuts, To
<1>8. Progress'
  BY <1>1, <1>2, <1>3, <1>7 DEF Inv, Progress, EnvAt
<1>9. shortcuts' \in Roots
  BY <1>0, <1>7 DEF Types
<1> QED
  BY <1>0, <1>1, <1>2, <1>3, <1>4, <1>5, <1>6, <1>8, <1>9, MoveStep DEF Types

LEMMA ReleaseStateStep ==
  ASSUME Inv, WriteReleaseState
  PROVE  Inv'
<1>0. Position /\ Types
  BY DEF Inv, Types
<1>1. mode = "install" /\ at = 8
  BY <1>0, MovesAt DEF WriteReleaseState
<1>2. mode' = mode /\ at' = 9 /\ mem' = mem /\ Position'
  BY <1>0, <1>1, Advanced DEF AtLast, WriteReleaseState, Position
<1>3. UNCHANGED <<channel, env, contract, torn, journal, shortcuts, db, txn, unpacked, overwritten>>
  BY DEF WriteReleaseState, worldVars
<1>4. Unfinished' /\ SameNames
  BY <1>1, <1>3, Moving DEF Unfinished, SameNames
<1>5. Recoverable'
  BY <1>3 DEF Inv, Recoverable, Unfinished
<1>6. Progress'
  BY <1>1, <1>2, <1>3 DEF Inv, Progress, EnvAt
<1>7. sequence' \in Nat
  BY <1>0 DEF WriteReleaseState, Types, Transactions
<1> QED
  BY <1>0, <1>1, <1>2, <1>3, <1>4, <1>5, <1>6, <1>7, MoveStep DEF Types

LEMMA RestoreStep ==
  ASSUME Inv, RestoreDatabase
  PROVE  Inv'
<1>0. Position /\ Types
  BY DEF Inv, Types
<1>1. \/ mode = "rollback" /\ at = 6
      \/ mode = "recover" /\ at = 3
  BY <1>0, MovesAt DEF RestoreDatabase
<1>2. mode' = mode /\ at' = at + 1 /\ mem' = mem /\ Position'
  BY <1>0, <1>1, Advanced DEF AtLast, RestoreDatabase, Position
<1>3. UNCHANGED <<channel, env, contract, torn, journal, shortcuts, sequence, txn, unpacked, overwritten>>
  BY DEF RestoreDatabase, worldVars
<1>4. Unfinished /\ Unfinished' /\ SameNames
  BY <1>1, <1>3, Moving DEF Unfinished, SameNames
<1>5. /\ txn.schema_changing => db' = Revision[unpacked[txn.contract]]
      /\ ~txn.schema_changing => db' = db
  BY DEF RestoreDatabase
<1>6. db' \in Nat
  BY <1>0, <1>1, <1>5, Moving DEF Types
<1>7. Recoverable'
  BY <1>3, <1>5 DEF Inv, Recoverable, Unfinished
<1>8. ~overwritten => db' = Revision[unpacked[txn.prior]]
  BY <1>4, <1>5 DEF Inv, Recoverable
<1>9. Progress'
  BY <1>1, <1>2, <1>3, <1>8 DEF Inv, Progress, EnvAt
<1> QED
  BY <1>0, <1>1, <1>2, <1>3, <1>4, <1>6, <1>7, <1>9, MoveStep DEF Types

-----------------------------------------------------------------------------
(* The end of a run, and the ways it is cut off.                           *)

\* The transaction is closed over an installation that is whole.
LEMMA CloseStep ==
  ASSUME Inv, NEW s \in {"committed", "rolled_back"}, txn' = [txn EXCEPT !.state = s],
         mode' = "none", at' = 0, mem' = Fresh,
         UNCHANGED <<channel, installVars, unpacked, overwritten>>,
         ~overwritten => Whole(journal),
         ~overwritten /\ s = "rolled_back" => journal = txn.prior
  PROVE  Inv'
<1> USE DEF installVars
<1>0. Types /\ RootsInOrder
  BY DEF Inv
<1>1. txn' \in Transactions /\ SameNames /\ txn'.state = s
  BY <1>0, StateSet DEF States
<1>2. Roots' = Roots
  BY DEF Roots
<1>3. Types' /\ RootsInOrder'
  BY <1>0, <1>1, <1>2, FreshMemory DEF Types, Position, SameNames, RootsInOrder, Candidate
<1>4. ~Unfinished'
  BY <1>1 DEF Unfinished
<1>5. Preparing' /\ Installing'
  BY <1>4 DEF Preparing, Installing
<1>6. Settled'
  BY <1>1 DEF Settled, Whole, SameNames
<1>7. Recoverable' /\ Progress'
  BY <1>4 DEF Recoverable, Progress
<1> QED
  BY <1>3, <1>5, <1>6, <1>7 DEF Inv

LEMMA CommitStep ==
  ASSUME Inv, Commit
  PROVE  Inv'
<1>0. Position
  BY DEF Inv, Types
<1>1. mode = "install" /\ at = 9
  BY <1>0, MovesAt DEF Commit, SetState
<1>2. mode' = "none" /\ at' = 0 /\ mem' = Fresh
  BY <1>0, <1>1, Advanced DEF AtLast, Commit, SetState
<1>3. ~overwritten => Whole(journal)
  BY <1>1, Moving DEF Inv, Progress, EnvAt, Whole
<1>4. PICK s \in {"committed", "rolled_back"} :
        s = "committed" /\ txn' = [txn EXCEPT !.state = s]
  BY DEF Commit, SetState
<1>5. UNCHANGED <<channel, installVars, unpacked, overwritten>>
  BY DEF Commit, SetState, worldVars
<1> QED
  BY <1>2, <1>3, <1>4, <1>5, CloseStep

LEMMA RolledBackStep ==
  ASSUME Inv, RolledBack
  PROVE  Inv'
<1>0. Position
  BY DEF Inv, Types
<1>1. \/ mode = "rollback" /\ at = 8
      \/ mode = "recover" /\ at = 6
  BY <1>0, MovesAt DEF RolledBack, SetState
<1>2. mode' = "none" /\ at' = 0 /\ mem' = Fresh
  BY <1>0, <1>1, Advanced DEF AtLast, RolledBack, SetState
<1>3. ~overwritten => Whole(journal) /\ journal = txn.prior
  BY <1>1 DEF Inv, Progress, EnvAt, Whole
<1>4. PICK s \in {"committed", "rolled_back"} : txn' = [txn EXCEPT !.state = s]
  BY DEF RolledBack, SetState
<1>5. UNCHANGED <<channel, installVars, unpacked, overwritten>>
  BY DEF RolledBack, SetState, worldVars
<1> QED
  BY <1>2, <1>3, <1>4, <1>5, CloseStep

\* A run is cut off or turned back with the transaction open, and the database may be
\* left at some other revision if the transaction changes the schema.
LEMMA CutStep ==
  ASSUME Inv, Unfinished, db' \in Nat, ~txn.schema_changing => db' = db,
         UNCHANGED <<channel, env, contract, journal, shortcuts, sequence, txn, unpacked,
                     overwritten>>,
         mem' \in Memories,
         (mode' = "none" /\ at' = 0) \/ (mode' = "rollback" /\ at' = 1)
  PROVE  Inv'
<1>1. Types' /\ RootsInOrder'
  BY DEF Inv, Types, Position, RootsInOrder, Roots, Candidate
<1>2. Unfinished'
  BY DEF Unfinished
<1>3. Preparing' /\ Settled'
  BY <1>2 DEF Preparing, Settled
<1>4. Installing'
  BY <1>2 DEF Inv, Installing
<1>5. Recoverable'
  BY DEF Inv, Recoverable
<1>6. Progress'
  BY DEF Progress
<1> QED
  BY <1>1, <1>3, <1>4, <1>5, <1>6 DEF Inv

LEMMA FailStep ==
  ASSUME Inv, Fail
  PROVE  Inv'
<1>1. mode = "install" /\ mode' = "rollback" /\ at' = 1 /\ mem' = mem
  BY DEF Fail, Goto
<1>2. Unfinished
  BY <1>1, Moving
<1>3. db' \in Nat /\ (~txn.schema_changing => db' = db)
  <2>1. db \in Nat /\ Revision[txn.release] \in Nat
    BY <1>1, Moving DEF Inv, Types
  <2>2. CASE At("migrate") /\ txn.schema_changing
    BY <2>1, <2>2 DEF Fail
  <2>3. CASE ~(At("migrate") /\ txn.schema_changing)
    BY <2>1, <2>3 DEF Fail
  <2> QED
    BY <2>2, <2>3
<1>4. UNCHANGED <<channel, env, contract, journal, shortcuts, sequence, txn, unpacked,
                  overwritten>>
  BY DEF Fail, worldVars
<1> QED
  BY <1>1, <1>2, <1>3, <1>4, CutStep DEF Inv, Types

LEMMA CrashStep ==
  ASSUME Inv, Crash
  PROVE  Inv'
<1>0. Position
  BY DEF Inv, Types
<1>1. mode' = "none" /\ at' = 0 /\ mem' \in Memories
  BY FreshMemory DEF Crash, Stop
<1>2. UNCHANGED <<channel, env, contract, journal, shortcuts, sequence, txn, unpacked,
                  overwritten>>
  BY DEF Crash, worldVars
<1>3. CASE At("contract") \/ (At("database") /\ txn.schema_changing)
  <2>1. Unfinished
    BY <1>0, <1>3, MovesAt, Moving
  <2>2. db' \in Nat /\ (~txn.schema_changing => db' = db)
    BY <1>3 DEF Crash, Inv, Types
  <2> QED
    BY <1>1, <1>2, <1>3, <2>1, <2>2, CutStep
<1>4. CASE ~(At("contract") \/ (At("database") /\ txn.schema_changing))
  <2>1. db' = db /\ torn' = torn
    BY <1>4 DEF Crash, CutOff
  <2>2. Position' /\ Preparing'
    BY <1>1 DEF Position, Preparing
  <2> QED
    BY <1>1, <1>2, <2>1, <2>2, RunStep DEF installVars, Inv, Types
<1> QED
  BY <1>3, <1>4

-----------------------------------------------------------------------------
(* The theorems.                                                           *)

LEMMA InitInv ==
  ASSUME Init
  PROVE  Inv
<1>1. Roots = {0} /\ unpacked \in [Roots -> Releases \cup {0}] /\ unpacked[0] = 0
  BY DEF Init, Roots
<1>2. Candidate = 1
  BY <1>1, FS_Singleton DEF Candidate
<1>3. RootsInOrder
  BY <1>1, <1>2 DEF RootsInOrder
<1>4. txn \in Transactions /\ txn.state = "none" /\ txn.prior = 0 /\ txn.candidate = 0
        /\ txn.contract = 0
  BY DEF Init, NoTransaction, Transactions, States
<1>5. db \in Nat
  BY UpdateAssumption DEF Init
<1>6. Types
  BY <1>1, <1>4, <1>5, FreshMemory DEF Init, Types, Position
<1>7. ~Unfinished /\ mode = "none"
  BY <1>4 DEF Init, Unfinished
<1>8. Preparing /\ Installing /\ Recoverable /\ Progress
  BY <1>7 DEF Preparing, Installing, Recoverable, Progress
<1>9. Settled
  BY <1>1, <1>4 DEF Init, Settled, Whole
<1> QED
  BY <1>3, <1>6, <1>8, <1>9 DEF Inv

LEMMA NextInv ==
  ASSUME Inv, [Next]_vars
  PROVE  Inv'
<1>1. CASE Begin \/ Download \/ VerifyUpdate \/ VerifyTrustMetadata \/ VerifyPersonalUpdate
             \/ Refuse \/ Prepare
  BY <1>1, BeginStep, DownloadStep, VerifyStep, UnpackStep, RefuseStep, PrepareStep
<1>2. CASE Migrate \/ Migrated \/ SetReleasePaths \/ CandidateReadiness \/ CopyContract
  BY <1>2, MigrateStep, MigratedStep, PathsStep, ReadinessStep, ContractStep
<1>3. CASE SaveJournal \/ SetShortcuts \/ WriteReleaseState \/ RestoreDatabase
  BY <1>3, JournalStep, ShortcutsStep, ReleaseStateStep, RestoreStep
<1>4. CASE Commit \/ MarkFailed \/ RolledBack
  BY <1>4, CommitStep, MarkFailedStep, RolledBackStep
<1>5. CASE Fail \/ Crash \/ Recover
  BY <1>5, FailStep, CrashStep, RecoverStep
<1>6. CASE Launch \/ Quit \/ Backup \/ Publish
  BY <1>6, WorldStep DEF Launch, Quit, Backup, Publish, Inv, Types
<1>7. CASE UNCHANGED vars
  BY <1>7, WorldStep DEF vars, worldVars, Inv, Types
<1> QED
  BY <1>1, <1>2, <1>3, <1>4, <1>5, <1>6, <1>7 DEF Next

\* The inductive invariant of the updater holds in every behaviour of its scripts, for any
\* releases, environment files, runs and faults.
THEOREM Invariance == Spec => []Inv
<1>1. Init => Inv
  BY InitInv
<1>2. Inv /\ [Next]_vars => Inv'
  BY NextInv
<1> QED
  BY <1>1, <1>2, PTL DEF Spec

\* Update-RagPersonal.ps1 leaves one whole release or a transaction that Recover takes up.
THEOREM WholeOrRecoverableHolds == Spec => []WholeOrRecoverable
<1>1. Inv => WholeOrRecoverable
  BY DEF Inv, Settled, WholeOrRecoverable
<1> QED
  BY <1>1, Invariance, PTL

\* Its rollback and Recover-RagPersonalUpdate bring back all of the prior release.
THEOREM RolledBackIsPriorHolds == Spec => []RolledBackIsPrior
<1>1. Inv => RolledBackIsPrior
  BY DEF Inv, Settled, RolledBackIsPrior, Unfinished
<1> QED
  BY <1>1, Invariance, PTL

\* The journal only moves to a release beyond release_sequence: anti-rollback.
THEOREM OnlyForwardHolds == Spec => OnlyForward
<1>1. ASSUME Inv, [Next]_vars, mode = "install", journal' # journal
      PROVE  unpacked[journal'] > sequence
  <2>1. SaveJournal
    BY <1>1 DEF Next, vars, worldVars, installVars, runVars, Begin, Download, VerifyUpdate,
                VerifyTrustMetadata, VerifyPersonalUpdate, Refuse, Prepare, Migrate, Migrated,
                SetReleasePaths, CandidateReadiness, CopyContract, SetShortcuts,
                WriteReleaseState, RestoreDatabase, Commit, MarkFailed, RolledBack, SetState,
                Fail, Crash, Recover, Launch, Quit, Backup, Publish
  <2>2. at = 6
    BY <1>1, <2>1, MovesAt DEF SaveJournal, Inv, Types
  <2>3. journal' = txn.candidate
    BY <1>1, <2>1, Moving DEF SaveJournal, To
  <2> QED
    BY <1>1, <2>2, <2>3, Moving DEF Inv, Installing
<1>2. Inv /\ [Next]_vars =>
        [mode = "install" /\ journal' # journal => unpacked[journal'] > sequence]_vars
  BY <1>1
<1> QED
  BY <1>2, Invariance, PTL DEF Spec, OnlyForward

-----------------------------------------------------------------------------
(* The attended backup.                                                    *)

Descending(c) == \A k, m \in 1 .. Len(c) : k < m => c[k] > c[m]
UpTo(c, i) == \A k \in 1 .. Len(c) : c[k] <= i

\* The catalog lists runs from the newest to the oldest, and no more than fit.
Catalogs ==
  /\ catalog \in Seq(Nat) /\ Len(catalog) <= MaxEntries
  /\ \A k \in 1 .. Len(catalog) : catalog[k] \in 1 .. Len(runs)
  /\ Descending(catalog)

Listed(i) == i \in Range(catalog) \/ PushedOut(i)

LEMMA RangeIs ==
  ASSUME NEW i, NEW c \in Seq(Nat)
  PROVE  i \in Range(c) <=> \E k \in 1 .. Len(c) : c[k] = i
  BY DEF Range

LEMMA WithoutTheEntry ==
  ASSUME NEW c \in Seq(Nat), NEW i \in Nat,
         Descending(c), UpTo(c, i)
  PROVE  \E r \in Seq(Nat) :
           /\ r = RemoveFirst(c, i)
           /\ \A k \in 1 .. Len(r) : r[k] < i
           /\ \/ Len(c) > 0 /\ c[1] = i /\ r = SubSeq(c, 2, Len(c))
              \/ r = c
<1>1. CASE \A k \in 1 .. Len(c) : c[k] # i
  <2>1. RemoveFirst(c, i) = c
    BY <1>1 DEF RemoveFirst
  <2> QED
    BY <1>1, <2>1 DEF UpTo
<1>2. CASE \E k \in 1 .. Len(c) : c[k] = i
  <2>1. Len(c) \in Nat /\ Len(c) > 0 /\ c[1] = i
    BY <1>2 DEF Descending, UpTo
  <2> DEFINE I == {k \in 1 .. Len(c) : c[k] = i}
  <2>2. I = {1}
    BY <2>1 DEF Descending
  <2>3. Min(I) = 1
    BY <2>2 DEF Min
  <2>4. RemoveFirst(c, i) = SubSeq(c, 1, 1 - 1) \o SubSeq(c, 1 + 1, Len(c))
    BY <1>2, <2>2, <2>3 DEF RemoveFirst, RemoveAt, SelectInSeq
  <2>5. RemoveFirst(c, i) = SubSeq(c, 1, 0) \o SubSeq(c, 2, Len(c))
    BY <2>4
  <2>6. PICK n \in Nat : n = Len(c) /\ n > 0
    BY <2>1
  <2>7. /\ SubSeq(c, 2, n) \in Seq(Nat)
        /\ Len(SubSeq(c, 2, n)) = IF 2 <= n THEN n - 2 + 1 ELSE 0
        /\ \A k \in 1 .. n - 2 + 1 : SubSeq(c, 2, n)[k] = c[2 + k - 1]
    <3>1. \A k \in 2 .. n : c[k] \in Nat
      BY <2>6
    <3> QED
      BY <2>6, <3>1, SubSeqProperties
  <2>8. PICK r \in Seq(Nat) : r = SubSeq(c, 2, n)
    BY <2>7
  <2>9. PICK l \in Nat : l = n - 1
    BY <2>6
  <2>10. Len(r) = l /\ \A k \in 1 .. l : r[k] = c[k + 1]
    <3>1. /\ Len(r) = IF 2 <= n THEN n - 2 + 1 ELSE 0
          /\ \A k \in 1 .. n - 2 + 1 : r[k] = c[2 + k - 1]
      BY <2>7, <2>8, Zenon
    <3> HIDE <2>8
    <3> QED
      BY <2>6, <2>9, <3>1
  <2>11. \A k \in 1 .. l : r[k] < i
    <3> SUFFICES ASSUME NEW k \in 1 .. l PROVE c[k + 1] < c[1]
      BY <2>1, <2>10
    <3>1. 1 \in 1 .. Len(c) /\ k + 1 \in 1 .. Len(c) /\ 1 < k + 1
      BY <2>6, <2>9
    <3>2. c[1] > c[k + 1]
      BY <3>1 DEF Descending
    <3>3. c[1] \in Nat /\ c[k + 1] \in Nat
      BY <3>1
    <3> QED
      BY <3>2, <3>3
  <2>12. SubSeq(c, 1, 0) \o r = r
    BY SubSeqEmpty, EmptySeq, <2>8
  <2> QED
    BY <2>1, <2>5, <2>6, <2>8, <2>10, <2>11, <2>12
<1> QED
  BY <1>1, <1>2

Below(c, i) == \A k \in 1 .. Len(c) : c[k] < i
Kept(c, d, size) ==
  \A k \in 1 .. Len(c) : \/ \E m \in 1 .. Len(d) : d[m] = c[k]
                         \/ Len(d) = size /\ \A m \in 1 .. Len(d) : d[m] > c[k]

InFrontOf(e, size) == SubSeq(e, 1, IF Len(e) > size THEN size ELSE Len(e))
InFront(c, i, d, t, size) ==
  /\ t <= Len(c) + 1 /\ (t < Len(c) + 1 => t = size) /\ Len(d) = t
  /\ d[1] = i /\ \A k \in 1 .. Len(c) : k + 1 <= t => d[k + 1] = c[k]

Pushed(c, i, d, size) ==
  /\ Len(d) \in 1 .. size /\ Descending(d) /\ UpTo(d, i) /\ Kept(c, d, size)
  /\ \A m \in 1 .. Len(d) : d[m] = i \/ \E k \in 1 .. Len(c) : d[m] = c[k]
  /\ Len(c) >= size => Len(d) = size

\* The first entries of a list with i in front of c.
LEMMA FrontOf ==
  ASSUME NEW c \in Seq(Nat), NEW i \in Nat, NEW size \in Nat \ {0}
  PROVE  \E d \in Seq(Nat), t \in 1 .. size :
           /\ d = InFrontOf(<<i>> \o c, size) /\ InFront(c, i, d, t, size)
<1>1. PICK n \in Nat : n = Len(c)
  OBVIOUS
<1>2. PICK e \in Seq(Nat) : e = <<i>> \o c
  <2>0. <<i>> \in Seq(Nat)
    OBVIOUS
  <2>1. PICK u \in Seq(Nat) : u = <<i>>
    BY <2>0
  <2>2. u \o c \in Seq(Nat)
    BY ConcatProperties
  <2> QED
    BY <2>1, <2>2
<1>3. Len(e) = n + 1 /\ e[1] = i /\ \A k \in 1 .. n : e[k + 1] = c[k]
  BY <1>1, <1>2
<1>4. PICK t \in 1 .. size :
        t <= n + 1 /\ (t < n + 1 => t = size) /\ t = IF n + 1 > size THEN size ELSE n + 1
  <2>1. CASE n + 1 > size
    BY <2>1
  <2>2. CASE ~(n + 1 > size)
    BY <2>2
  <2> QED
    BY <2>1, <2>2
<1>5. \A k \in 1 .. t : e[k] \in Nat
  BY <1>3, <1>4
<1>6. t \in Int /\ 1 \in Int
  BY <1>4
<1>7. /\ SubSeq(e, 1, t) \in Seq(Nat)
      /\ Len(SubSeq(e, 1, t)) = IF 1 <= t THEN t - 1 + 1 ELSE 0
      /\ \A k \in 1 .. t - 1 + 1 : SubSeq(e, 1, t)[k] = e[1 + k - 1]
  BY <1>5, <1>6, SubSeqProperties
<1>8. PICK d \in Seq(Nat) : d = SubSeq(e, 1, t)
  BY <1>7
<1>9. /\ Len(d) = IF 1 <= t THEN t - 1 + 1 ELSE 0
      /\ \A k \in 1 .. t - 1 + 1 : d[k] = e[1 + k - 1]
  BY <1>7, <1>8, Zenon
<1>10. Len(d) = t /\ \A k \in 1 .. t : d[k] = e[k]
  BY <1>4, <1>9
<1>11. d[1] = i /\ \A k \in 1 .. n : k + 1 <= t => d[k + 1] = c[k]
  BY <1>3, <1>4, <1>10
<1>12. d = InFrontOf(e, size)
  BY <1>3, <1>4, <1>8 DEF InFrontOf
<1>13. InFront(c, i, d, t, size)
  BY <1>1, <1>4, <1>10, <1>11 DEF InFront
<1> QED
  BY <1>2, <1>12, <1>13

\* A new entry in front: the order is kept, and only what is older than
\* everything that stays is dropped.
LEMMA EntryInFront ==
  ASSUME NEW c \in Seq(Nat), Descending(c), NEW i \in Nat, Below(c, i),
         NEW size \in Nat \ {0}, NEW d \in Seq(Nat), NEW t \in 1 .. size,
         InFront(c, i, d, t, size)
  PROVE  Pushed(c, i, d, size)
<1>1. PICK n \in Nat : n = Len(c)
  OBVIOUS
<1>3. t <= n + 1 /\ (t < n + 1 => t = size)
  BY <1>1 DEF InFront
<1>6. Len(d) = t
  BY DEF InFront
<1>7. d[1] = i /\ \A k \in 1 .. n : k + 1 <= t => d[k + 1] = c[k]
  BY <1>1 DEF InFront
<1>8. \A k \in 1 .. n : c[k] \in Nat /\ c[k] < i
  BY <1>1 DEF Below
<1>9. \A k, m \in 1 .. n : k < m => c[k] > c[m]
  BY <1>1 DEF Descending
<1>10. \A m \in 1 .. t : m = 1 \/ \E k \in 1 .. n : m = k + 1 /\ d[m] = c[k]
  <2> SUFFICES ASSUME NEW m \in 1 .. t, m # 1
               PROVE  \E k \in 1 .. n : m = k + 1 /\ d[m] = c[k]
    OBVIOUS
  <2>1. m - 1 \in 1 .. n /\ m = (m - 1) + 1 /\ (m - 1) + 1 <= t
    BY <1>3
  <2>2. d[m] = c[m - 1]
    BY <1>7, <2>1
  <2> QED
    BY <2>1, <2>2
<1>11. Descending(d)
  <2> SUFFICES ASSUME NEW a \in 1 .. t, NEW b \in 1 .. t, a < b PROVE d[a] > d[b]
    BY <1>6 DEF Descending
  <2>0. b # 1
    OBVIOUS
  <2>1. PICK q \in 1 .. n : b = q + 1 /\ d[b] = c[q]
    BY <1>10, <2>0
  <2>2. CASE a = 1
    BY <1>7, <1>8, <2>1, <2>2
  <2>3. CASE a # 1
    <3>1. PICK p \in 1 .. n : a = p + 1 /\ d[a] = c[p]
      BY <1>10, <2>3
    <3> QED
      BY <1>9, <2>1, <3>1
  <2> QED
    BY <2>2, <2>3
<1>12. UpTo(d, i)
  <2> SUFFICES ASSUME NEW m \in 1 .. t PROVE d[m] <= i
    BY <1>6 DEF UpTo
  <2>1. CASE m = 1
    BY <1>7, <2>1
  <2>2. CASE m # 1
    <3>1. PICK k \in 1 .. n : d[m] = c[k]
      BY <1>10, <2>2
    <3> QED
      BY <1>8, <3>1
  <2> QED
    BY <2>1, <2>2
<1>13. Kept(c, d, size)
  <2> SUFFICES ASSUME NEW k \in 1 .. n
               PROVE  \/ \E m \in 1 .. t : d[m] = c[k]
                      \/ t = size /\ \A m \in 1 .. t : d[m] > c[k]
    BY <1>1, <1>6 DEF Kept
  <2>1. CASE k + 1 <= t
    <3>1. k + 1 \in 1 .. t /\ d[k + 1] = c[k]
      BY <1>7, <2>1
    <3> QED
      BY <3>1
  <2>2. CASE k + 1 > t
    <3>1. t = size
      BY <1>3, <2>2
    <3>2. ASSUME NEW m \in 1 .. t PROVE d[m] > c[k]
      <4>1. CASE m = 1
        BY <1>7, <1>8, <4>1
      <4>2. CASE m # 1
        <5>1. PICK q \in 1 .. n : m = q + 1 /\ d[m] = c[q]
          BY <1>10, <4>2
        <5>2. q < k
          BY <2>2, <5>1
        <5> QED
          BY <1>9, <5>1, <5>2
      <4> QED
        BY <4>1, <4>2
    <3> QED
      BY <3>1, <3>2
  <2> QED
    BY <2>1, <2>2
<1>14. \A m \in 1 .. t : d[m] = i \/ \E k \in 1 .. n : d[m] = c[k]
  BY <1>7, <1>10
<1>15. n >= size => t = size
  BY <1>3
<1> QED
  BY <1>1, <1>6, <1>11, <1>12, <1>13, <1>14, <1>15 DEF Pushed

\* _record_verified_backup for the newest run: it is listed, and what was listed
\* is listed still or older than a full catalog.
LEMMA RecordedIsListed ==
  ASSUME Catalogs, NEW i \in Nat, i = Len(runs), i > 0,
         catalog' = Recorded(i), Len(runs') = Len(runs)
  PROVE  /\ Catalogs' /\ Listed(i)'
         /\ \A j \in 1 .. Len(runs) : Listed(j) => Listed(j)'
<1>1. PICK c \in Seq(Nat) :
        /\ c = catalog /\ Len(c) <= MaxEntries /\ Descending(c)
        /\ \A k \in 1 .. Len(c) : c[k] \in 1 .. i
  BY DEF Catalogs
<1>2. UpTo(c, i) /\ MaxEntries \in Nat \ {0}
  BY <1>1, CatalogAssumption DEF UpTo
<1>3. PICK r \in Seq(Nat) :
        /\ r = RemoveFirst(c, i) /\ \A k \in 1 .. Len(r) : r[k] < i
        /\ \/ Len(c) > 0 /\ c[1] = i /\ r = SubSeq(c, 2, Len(c))
           \/ r = c
  BY <1>1, <1>2, WithoutTheEntry
<1>5. catalog' = InFrontOf(<<i>> \o r, MaxEntries)
  BY <1>1, <1>3 DEF Recorded, InFrontOf
<1>6. CASE r = c
  <2>1. Below(c, i)
    BY <1>3, <1>6 DEF Below
  <2>2. PICK d \in Seq(Nat), t \in 1 .. MaxEntries :
          d = InFrontOf(<<i>> \o c, MaxEntries) /\ InFront(c, i, d, t, MaxEntries)
    BY <1>2, FrontOf
  <2>20. catalog' = d
    BY <1>5, <1>6, <2>2
  <2>3. /\ Len(d) \in 1 .. MaxEntries /\ Descending(d) /\ UpTo(d, i) /\ Kept(c, d, MaxEntries)
        /\ \A m \in 1 .. Len(d) : d[m] = i \/ \E k \in 1 .. Len(c) : d[m] = c[k]
        /\ Len(c) >= MaxEntries => Len(d) = MaxEntries
    <3>1. Descending(c)
      BY <1>1
    <3>2. InFront(c, i, d, t, MaxEntries)
      BY <2>2
    <3>3. MaxEntries \in Nat \ {0}
      BY <1>2
    <3>4. Pushed(c, i, d, MaxEntries)
      BY <2>1, <3>1, <3>2, <3>3, EntryInFront
    <3> QED
      BY <3>4 DEF Pushed
  <2>4. Catalogs'
    <3>0. \A k \in 1 .. Len(c) : c[k] \in 1 .. i
      BY <1>1
    <3>1. ASSUME NEW m \in 1 .. Len(d) PROVE d[m] \in 1 .. i
      <4>1. CASE d[m] = i
        BY <4>1
      <4>2. CASE d[m] # i
        <5>1. PICK k \in 1 .. Len(c) : d[m] = c[k]
          BY <2>3, <4>2
        <5> QED
          BY <3>0, <5>1
      <4> QED
        BY <4>1, <4>2
    <3> QED
      BY <1>2, <2>20, <2>3, <3>1 DEF Catalogs
  <2>5. Listed(i)'
    <3>1. 1 \in 1 .. Len(d) /\ d[1] = i
      BY <2>2, <2>3 DEF InFront
    <3>2. i \in Range(d)
      BY <2>2, <3>1, RangeIs
    <3> QED
      BY <2>20, <3>2 DEF Listed, Range
  <2>6. ASSUME NEW j \in 1 .. Len(runs), Listed(j) PROVE Listed(j)'
    <3>1. CASE \E m \in 1 .. Len(d) : d[m] = j
      <4>1. j \in Range(d)
        BY <2>2, <3>1, RangeIs
      <4> QED
        BY <2>20, <4>1 DEF Listed, Range
    <3>2. CASE Len(d) = MaxEntries /\ \A m \in 1 .. Len(d) : d[m] > j
      <4>1. DOMAIN d = 1 .. Len(d)
        BY <2>2
      <4> QED
        BY <2>20, <3>2, <4>1 DEF Listed, PushedOut
    <3>3. CASE j \in Range(c)
      <4>1. PICK k \in 1 .. Len(c) : c[k] = j
        BY <3>3, RangeIs
      <4> QED
        BY <2>3, <3>1, <3>2, <4>1 DEF Kept
    <3>4. CASE PushedOut(j)
      <4>1. Len(c) = MaxEntries /\ \A k \in 1 .. Len(c) : c[k] > j
        <5>1. DOMAIN c = 1 .. Len(c)
          OBVIOUS
        <5> QED
          BY <1>1, <3>4, <5>1 DEF PushedOut
      <4>2. Len(d) = MaxEntries
        BY <1>2, <2>3, <4>1
      <4>3. PICK k \in 1 .. Len(c) : c[k] > j
        BY <1>2, <4>1
      <4>4. i > j
        BY <1>1, <4>3
      <4>5. \A m \in 1 .. Len(d) : d[m] > j
        BY <2>3, <4>1, <4>4
      <4> QED
        BY <3>2, <4>2, <4>5
    <3> QED
      BY <1>1, <2>6, <3>3, <3>4 DEF Listed
  <2> QED
    BY <2>4, <2>5, <2>6
<1>7. CASE Len(c) > 0 /\ c[1] = i /\ r = SubSeq(c, 2, Len(c))
  <2>1. PICK n \in Nat : n = Len(c) /\ n > 0 /\ n <= MaxEntries
    BY <1>1, <1>7
  <2>2. SubSeq(c, 1, n) = <<c[1]>> \o SubSeq(c, 1 + 1, n)
    <3>1. 1 \in 1 .. Len(c) /\ n \in 1 .. Len(c)
      BY <2>1
    <3> QED
      BY <3>1, SubSeqRecursiveFirst
  <2>3. SubSeq(c, 1, n) = c
    BY <2>1, SubSeqFull
  <2>4. <<i>> \o r = c
    <3>1. 1 + 1 = 2
      OBVIOUS
    <3> QED
      BY <1>7, <2>1, <2>2, <2>3, <3>1
  <2>5. InFrontOf(c, MaxEntries) = c
    <3>1. ~(n > MaxEntries)
      BY <1>2, <2>1
    <3> QED
      BY <2>1, <2>3, <3>1, Zenon DEF InFrontOf
  <2>6. catalog' = catalog /\ 1 \in 1 .. Len(c)
    <3>1. catalog' = c
      BY <1>5, <2>4, <2>5, Zenon
    <3> QED
      BY <1>1, <2>1, <3>1
  <2>7. i \in Range(c)
    BY <1>7, <2>6, RangeIs
  <2> QED
    BY <1>1, <2>6, <2>7 DEF Catalogs, Listed, Range, PushedOut
<1> QED
  BY <1>3, <1>6, <1>7
-----------------------------------------------------------------------------
(* The inductive invariant of the attended backup.                          *)

BackupRows == [run : {"running", "failed", "succeeded"},
               state : {"pending", "running", "failed", "succeeded"},
               stage : {"queued", "draining", "exporting", "verifying",
                        "failed", "succeeded"},
               manifest : {"none", "recorded"}]
Inventories == [docs : SUBSET Keys, deletions : SUBSET Keys]
BackupBundles ==
  {NoBundle}
    \cup [at : {"dumped"}, dump : Inventories]
    \cup [at : {"objects"}, dump : Inventories, objects : SUBSET Keys]
    \cup [at : {"complete"}, dump : Inventories, objects : SUBSET Keys,
          inventory : Inventories]
BackupRequests == {NoRequest} \cup [at : {"put", "commit", "delete"}, key : Keys]
BackupCalls == {NoCall} \cup [at : {"waiting", "failing"}, run : Nat]

\* Where the controller's thread has closed the gate and knows it, where it has
\* stopped the workers too, and where the operation is certainly its own.
Paused == {"exporting", "dump", "objects", "snapshot", "exported", "verifying",
           "verify", "verified"}
Closed == Paused \cup {"stop"}
Owning == Closed \cup {"choose", "drain", "idle_wait"}
Stages == Owning \cup {"claim", "fail", "restart", "resume"}
BackupThreads ==
  {Idle} \cup [at : Stages, run : Nat, drained : BOOLEAN, stopped : SUBSET Workers]

BackupLibrary ==
  /\ docs \subseteq Keys /\ deletions \subseteq Keys /\ store \subseteq Keys
  /\ requests \in [Requests -> BackupRequests]

BackupTypes ==
  /\ draining \in BOOLEAN /\ workers \subseteq Workers
  /\ runs \in Seq(BackupRows) /\ bundles \in Seq(BackupBundles)
  /\ Len(bundles) = Len(runs)
  /\ call \in BackupCalls /\ (call # NoCall => call.run \in 1 .. Len(runs))
  /\ wire \subseteq 1 .. Len(runs) /\ refused \subseteq 1 .. Len(runs)
  /\ ctl \in BackupThreads /\ (ctl # Idle => ctl.run \in 1 .. Len(runs))
  /\ ~up => ctl = Idle

\* Nobody is inside the gate, and no worker runs.
Gate ==
  /\ ctl.at \in Closed => /\ draining /\ call = NoCall
                          /\ \A r \in Requests : requests[r] = NoRequest
  /\ ctl.at = "idle_wait" => draining
  /\ ctl.at \in Paused => workers = {}

\* The dump is still what the database holds until the manifest is written.
Exporting ==
  /\ ctl.at = "objects" => /\ bundles[ctl.run].at = "dumped"
                           /\ bundles[ctl.run].dump = Inventory
  /\ ctl.at = "snapshot" => /\ bundles[ctl.run].at = "objects"
                            /\ bundles[ctl.run].dump = Inventory

\* One operation is active, the newest, and the thread that owns it sees it
\* running; a request that still waits has not seen its run succeed.
Operation ==
  /\ \A i \in 1 .. Len(runs) : ActiveRun(i) => i = Len(runs)
  /\ ctl.at \in Owning => runs[ctl.run].state = "running"
  /\ call # NoCall => runs[call.run].run # "succeeded"

Pair(i) == Complete(i) => /\ bundles[i].dump = bundles[i].inventory
                          /\ bundles[i].dump.docs \subseteq bundles[i].objects
Clean(i) == Complete(i) /\ AuditClean(bundles[i]) /\ Listed(i)

\* What the rows of a run say, and what there is to show for it.
RowHolds(i) ==
  /\ runs[i].state = "succeeded" => runs[i].run = "succeeded" /\ Clean(i)
  /\ runs[i].run = "succeeded" => runs[i].manifest = "recorded"
  /\ i \in refused => runs[i].run = "failed"

Outcomes ==
  /\ \A i \in 1 .. Len(runs) : Pair(i) /\ RowHolds(i)
  /\ ctl.at = "verified" => Clean(ctl.run)

BackupInv == /\ BackupLibrary /\ BackupTypes /\ Gate /\ Exporting /\ Operation
             /\ Outcomes /\ Catalogs

LEMMA BackupInitially ==
  ASSUME BackupInit PROVE BackupInv
<1>1. BackupLibrary
  BY DEF BackupInit, BackupLibrary, BackupRequests
<1>2. /\ runs = <<>> /\ bundles = <<>> /\ catalog = <<>> /\ wire = {} /\ refused = {} /\ up = TRUE
      /\ draining = FALSE /\ workers = Workers /\ call = NoCall /\ ctl = Idle
  BY DEF BackupInit
<1>3. /\ runs \in Seq(BackupRows) /\ bundles \in Seq(BackupBundles) /\ catalog \in Seq(Nat)
      /\ Len(runs) = 0 /\ Len(bundles) = 0 /\ Len(catalog) = 0
  BY <1>2
<1>4. ctl.at = "idle"
  BY <1>2 DEF Idle
<1>5. BackupTypes
  BY <1>2, <1>3 DEF BackupTypes, BackupCalls, BackupThreads
<1>6. Gate /\ Exporting
  BY <1>4 DEF Gate, Exporting, Closed, Paused
<1>7. Operation /\ Outcomes
  BY <1>2, <1>3, <1>4 DEF Operation, Outcomes, Closed, Paused, Owning
<1>8. Catalogs
  BY <1>3, CatalogAssumption DEF Catalogs, Descending
<1> QED
  BY <1>1, <1>5, <1>6, <1>7, <1>8 DEF BackupInv

LEMMA RowReplaced ==
  ASSUME BackupTypes, NEW j \in 1 .. Len(runs), NEW row \in BackupRows,
         runs' = [runs EXCEPT ![j] = row]
  PROVE  /\ runs' \in Seq(BackupRows) /\ Len(runs') = Len(runs) /\ runs'[j] = row
         /\ \A i \in 1 .. Len(runs) : i # j => runs'[i] = runs[i]
  BY DEF BackupTypes

LEMMA BundleReplaced ==
  ASSUME BackupTypes, NEW j \in 1 .. Len(runs), NEW b \in BackupBundles,
         bundles' = [bundles EXCEPT ![j] = b]
  PROVE  /\ bundles' \in Seq(BackupBundles) /\ Len(bundles') = Len(runs) /\ bundles'[j] = b
         /\ \A i \in 1 .. Len(runs) : i # j => bundles'[i] = bundles[i]
  BY DEF BackupTypes

\* Nothing a run is judged by changes.
LEMMA OutcomesStay ==
  ASSUME BackupInv, UNCHANGED <<runs, bundles, refused, catalog>>,
         ctl'.at = "verified" => ctl.at = "verified" /\ ctl'.run = ctl.run
  PROVE  Outcomes' /\ Catalogs'
<1>1. \A i : (Pair(i) <=> Pair(i)') /\ (RowHolds(i) <=> RowHolds(i)') /\ (Clean(i) <=> Clean(i)')
  BY DEF Pair, RowHolds, Clean, Complete, AuditClean, Listed, PushedOut, Range
<1>2. Catalogs'
  BY DEF BackupInv, Catalogs, Descending
<1>3. Outcomes'
  BY <1>1 DEF BackupInv, Outcomes
<1> QED
  BY <1>2, <1>3

LEMMA BackupMutations ==
  ASSUME BackupInv, NEW r \in Requests, Mutation(r) PROVE BackupInv'
<1> USE DEF BackupInv
<1>1. UNCHANGED <<draining, workers, runs, call, wire, ctl, bundles, catalog, up, refused>>
  BY DEF Mutation, outcome, meta
<1>2. BackupTypes' /\ Operation'
  BY <1>1 DEF BackupTypes, Operation, ActiveRun
<1>3. Outcomes' /\ Catalogs'
  BY <1>1, OutcomesStay
<1>4. ctl.at \notin Closed
  <2> SUFFICES ASSUME ctl.at \in Closed PROVE FALSE
    OBVIOUS
  <2>1. draining /\ requests[r] = NoRequest
    BY DEF Gate
  <2>2. requests[r].at = "none"
    BY <2>1 DEF NoRequest
  <2> QED
    BY <2>1, <2>2 DEF Mutation, UploadBegins, DeleteBegins, Enters,
       PutObject, CommitUpload, AbandonUpload, DeleteDocument
<1>5. Gate' /\ Exporting'
  BY <1>1, <1>4 DEF Gate, Exporting, Closed, Paused
<1>6. BackupLibrary'
  <2>0. /\ docs \subseteq Keys /\ deletions \subseteq Keys /\ store \subseteq Keys
        /\ requests \in [Requests -> BackupRequests]
    BY DEF BackupLibrary
  <2>1. ASSUME requests[r].at \in {"put", "commit", "delete"}
        PROVE  requests[r] \in [at : {"put", "commit", "delete"}, key : Keys]
    BY <2>0, <2>1 DEF BackupRequests, NoRequest
  <2>2. ASSUME NEW k \in Keys, UploadBegins(r, k) PROVE BackupLibrary'
    BY <2>0, <2>2 DEF UploadBegins, BackupLibrary, BackupRequests
  <2>3. ASSUME NEW k \in Keys, DeleteBegins(r, k) PROVE BackupLibrary'
    BY <2>0, <2>3 DEF DeleteBegins, BackupLibrary, BackupRequests
  <2>4. CASE PutObject(r)
    BY <2>0, <2>1, <2>4 DEF PutObject, BackupLibrary, BackupRequests
  <2>5. CASE CommitUpload(r)
    BY <2>0, <2>1, <2>5 DEF CommitUpload, BackupLibrary, BackupRequests
  <2>6. CASE AbandonUpload(r)
    BY <2>0, <2>6 DEF AbandonUpload, BackupLibrary, BackupRequests
  <2>7. CASE DeleteDocument(r)
    BY <2>0, <2>1, <2>7 DEF DeleteDocument, BackupLibrary, BackupRequests
  <2> QED
    BY <2>2, <2>3, <2>4, <2>5, <2>6, <2>7 DEF Mutation
<1> QED
  BY <1>2, <1>3, <1>5, <1>6

LEMMA BackupDeletions ==
  ASSUME BackupInv, NEW k \in Keys, DeletionPass(k) PROVE BackupInv'
<1> USE DEF BackupInv
<1>1. /\ UNCHANGED <<docs, requests, draining, workers, runs, call, wire, ctl, bundles, catalog, up, refused>>
      /\ "deletion" \in workers
  BY DEF DeletionPass, outcome, meta
<1>2. BackupTypes' /\ Operation'
  BY <1>1 DEF BackupTypes, Operation, ActiveRun
<1>3. Outcomes' /\ Catalogs'
  BY <1>1, OutcomesStay
<1>4. ctl.at \notin Paused
  BY <1>1 DEF Gate
<1>5. Gate' /\ Exporting'
  BY <1>1, <1>4 DEF Gate, Exporting, Closed, Paused
<1>6. BackupLibrary'
  BY <1>1 DEF BackupLibrary, DeletionPass
<1> QED
  BY <1>2, <1>3, <1>5, <1>6

\* The library and the requests do not change, nor do the gate and the workers.
LEMMA LibraryStays ==
  ASSUME BackupLibrary, UNCHANGED <<docs, deletions, store, requests>>
  PROVE  BackupLibrary' /\ Inventory' = Inventory
  BY DEF BackupLibrary, Inventory

LEMMA BackupStarts ==
  ASSUME BackupInv, StartBackup PROVE BackupInv'
<1> USE DEF BackupInv
<1>1. /\ UNCHANGED <<docs, deletions, store, requests, draining, workers, ctl, catalog, up, refused>>
      /\ ~draining /\ call = NoCall /\ NoActiveRun
  BY DEF StartBackup, library, meta, Enters
<1>2. PICK n \in Nat : n = Len(runs)
  BY DEF BackupTypes
<1>3. /\ runs' \in Seq(BackupRows) /\ Len(runs') = n + 1
      /\ runs'[n + 1] = NewRun /\ \A i \in 1 .. n : runs'[i] = runs[i]
  <2>1. NewRun \in BackupRows
    BY DEF NewRun, BackupRows
  <2>2. runs' = Append(runs, NewRun) /\ runs \in Seq(BackupRows)
    BY DEF StartBackup, BackupTypes
  <2> QED
    BY <1>2, <2>1, <2>2
<1>4. /\ bundles' \in Seq(BackupBundles) /\ Len(bundles') = n + 1
      /\ bundles'[n + 1] = NoBundle /\ \A i \in 1 .. n : bundles'[i] = bundles[i]
  <2>1. NoBundle \in BackupBundles
    BY DEF BackupBundles
  <2>2. bundles' = Append(bundles, NoBundle) /\ bundles \in Seq(BackupBundles) /\ Len(bundles) = n
    BY <1>2 DEF StartBackup, BackupTypes
  <2> QED
    BY <2>1, <2>2
<1>5. call' = [at |-> "waiting", run |-> n + 1] /\ wire' = wire \cup {n + 1}
  BY <1>2 DEF StartBackup
<1>6. \A i \in 1 .. n + 1 : i \in 1 .. n \/ i = n + 1
  OBVIOUS
<1>7. BackupTypes'
  <2>1. call' \in BackupCalls /\ call'.run = n + 1
    BY <1>5 DEF BackupCalls
  <2>2. wire' \subseteq 1 .. n + 1 /\ refused' \subseteq 1 .. n + 1
    <3>1. wire \subseteq 1 .. n /\ refused \subseteq 1 .. n
      BY <1>2 DEF BackupTypes
    <3>2. 1 .. n \subseteq 1 .. n + 1 /\ n + 1 \in 1 .. n + 1
      OBVIOUS
    <3> QED
      BY <1>1, <1>5, <3>1, <3>2
  <2>3. ctl \in BackupThreads /\ (ctl # Idle => ctl.run \in 1 .. n + 1) /\ (~up => ctl = Idle)
    BY <1>2 DEF BackupTypes
  <2>4. draining \in BOOLEAN /\ workers \subseteq Workers
    BY DEF BackupTypes
  <2> QED
    BY <1>1, <1>3, <1>4, <2>1, <2>2, <2>3, <2>4 DEF BackupTypes
<1>8. ctl.at \notin Closed /\ ctl.at \notin Owning
  <2>1. ctl.at \notin Closed
    BY <1>1 DEF Gate
  <2>2. ctl.at \in Owning => ctl # Idle
    BY DEF Owning, Closed, Paused, Idle
  <2>3. ctl.at \in Owning => ctl.run \in 1 .. n /\ runs[ctl.run].state = "running"
    BY <1>2, <2>2 DEF BackupTypes, Operation
  <2>4. \A i \in 1 .. n : ~ActiveRun(i)
    BY <1>1, <1>2 DEF NoActiveRun, BackupTypes
  <2> QED
    BY <2>1, <2>3, <2>4 DEF ActiveRun
<1>9. Gate' /\ Exporting'
  BY <1>1, <1>8 DEF Gate, Exporting, Closed, Paused
<1>10. Operation'
  <2>1. \A i \in 1 .. n : ~ActiveRun(i)
    BY <1>1, <1>2 DEF NoActiveRun, BackupTypes
  <2>2. \A i \in 1 .. n + 1 : ActiveRun(i)' => i = n + 1
    BY <1>3, <1>6, <2>1 DEF ActiveRun
  <2>3. runs'[call'.run].run # "succeeded"
    BY <1>3, <1>5 DEF NewRun
  <2> QED
    BY <1>1, <1>3, <1>8, <2>2, <2>3 DEF Operation
<1>11. Catalogs'
  <2>1. \A k \in 1 .. Len(catalog) : catalog[k] \in 1 .. n + 1
    BY <1>2 DEF Catalogs
  <2> QED
    BY <1>1, <1>3, <2>1 DEF Catalogs, Descending
<1>12. Outcomes'
  <2>1. \A i \in 1 .. n : Pair(i)' /\ RowHolds(i)'
    <3> SUFFICES ASSUME NEW i \in 1 .. n PROVE Pair(i)' /\ RowHolds(i)'
      OBVIOUS
    <3>1. runs'[i] = runs[i] /\ bundles'[i] = bundles[i]
      BY <1>3, <1>4
    <3>2. Pair(i) /\ RowHolds(i)
      BY <1>2 DEF Outcomes
    <3> QED
      BY <1>1, <3>1, <3>2 DEF Pair, RowHolds, Clean, Complete, AuditClean, Listed, PushedOut, Range
  <2>2. Pair(n + 1)'
    BY <1>4 DEF Pair, Complete, NoBundle
  <2>3. n + 1 \notin refused => RowHolds(n + 1)'
    BY <1>1, <1>3 DEF RowHolds, NewRun
  <2>4. ctl'.at # "verified"
    BY <1>1, <1>8 DEF Closed, Paused
  <2>5. n + 1 \notin refused
    <3>1. refused \subseteq 1 .. n
      BY <1>2 DEF BackupTypes
    <3> QED
      BY <3>1
  <2> QED
    BY <1>3, <1>6, <2>1, <2>2, <2>3, <2>4, <2>5 DEF Outcomes
<1>13. BackupLibrary'
  BY <1>1, LibraryStays
<1> QED
  BY <1>7, <1>9, <1>10, <1>11, <1>12, <1>13

LEMMA BackupCommands ==
  ASSUME BackupInv, NEW i \in wire, HandleCommand(i) PROVE BackupInv'
<1> USE DEF BackupInv
<1>1. /\ UNCHANGED <<docs, deletions, store, requests, draining, workers, runs, bundles, catalog, up, refused>>
      /\ up /\ wire' = wire \ {i} /\ i \in 1 .. Len(runs)
  BY DEF HandleCommand, library, meta, outcome, BackupTypes
<1>2. call' \in BackupCalls /\ (call' # NoCall => call # NoCall /\ call'.run = call.run)
  BY DEF HandleCommand, BackupTypes, BackupCalls, NoCall
<1>3. \/ ctl' = ctl
      \/ /\ ctl = Idle
         /\ ctl' = [at |-> "claim", run |-> i, drained |-> FALSE, stopped |-> {}]
  BY DEF HandleCommand
<1>4. /\ ctl' \in BackupThreads /\ (ctl' # Idle => ctl'.run \in 1 .. Len(runs))
      /\ ctl' = ctl \/ ctl'.at = "claim"
  <2>1. i \in Nat
    BY <1>1
  <2>2. [at |-> "claim", run |-> i, drained |-> FALSE, stopped |-> {}] \in BackupThreads
    BY <2>1 DEF BackupThreads, Stages
  <2>3. ctl \in BackupThreads /\ (ctl # Idle => ctl.run \in 1 .. Len(runs))
    BY DEF BackupTypes
  <2>4. CASE ctl' = ctl
    BY <2>3, <2>4
  <2>5. CASE ctl' = [at |-> "claim", run |-> i, drained |-> FALSE, stopped |-> {}]
    <3>1. ctl' \in BackupThreads /\ ctl'.at = "claim" /\ ctl'.run = i
      BY <2>2, <2>5
    <3> QED
      BY <1>1, <3>1
  <2> QED
    BY <1>3, <2>4, <2>5
<1>5. BackupTypes'
  BY <1>1, <1>2, <1>4 DEF BackupTypes
<1>6. Gate' /\ Exporting'
  <2>1. CASE ctl' = ctl
    <3>1. call = NoCall => call' = NoCall
      BY <1>2
    <3> QED
      BY <1>1, <2>1, <3>1, LibraryStays DEF Gate, Exporting
  <2>2. CASE ctl'.at = "claim"
    BY <2>2 DEF Gate, Exporting, Closed, Paused
  <2> QED
    BY <1>4, <2>1, <2>2
<1>7. Operation'
  BY <1>1, <1>2, <1>4 DEF Operation, Owning, Closed, Paused, ActiveRun
<1>8. Outcomes' /\ Catalogs'
  BY <1>1, <1>4, OutcomesStay
<1> QED
  BY <1>1, <1>5, <1>6, <1>7, <1>8, LibraryStays

LEMMA BackupTimeouts ==
  ASSUME BackupInv, CommandTimesOut PROVE BackupInv'
<1> USE DEF BackupInv
<1>1. /\ UNCHANGED <<docs, deletions, store, requests, draining, workers, runs, bundles, catalog, up, refused, ctl>>
      /\ wire' \subseteq wire /\ call.at = "waiting" /\ call' = [call EXCEPT !.at = "failing"]
  BY DEF CommandTimesOut, library, meta, outcome
<1>2. call' \in BackupCalls /\ call # NoCall /\ call'.run = call.run
  BY <1>1 DEF BackupTypes, BackupCalls, NoCall
<1>5. BackupTypes'
  BY <1>1, <1>2 DEF BackupTypes
<1>6. Gate' /\ Exporting'
  BY <1>1, <1>2, LibraryStays DEF Gate, Exporting
<1>7. Operation'
  BY <1>1, <1>2 DEF Operation, ActiveRun
<1>8. Outcomes' /\ Catalogs'
  BY <1>1, OutcomesStay
<1> QED
  BY <1>1, <1>5, <1>6, <1>7, <1>8, LibraryStays

\* The session of the caller has ended: nothing is recorded.
LEMMA BackupDeliveryUnrecorded ==
  ASSUME BackupInv, FailDelivery, UNCHANGED <<runs, refused>> PROVE BackupInv'
<1> USE DEF BackupInv
<1>1. /\ UNCHANGED <<docs, deletions, store, requests, draining, workers, runs, bundles, wire,
                     catalog, up, refused, ctl>>
      /\ call' = NoCall
  BY DEF FailDelivery, library, meta, outcome
<1>2. BackupTypes'
  BY <1>1 DEF BackupTypes, BackupCalls
<1>3. Gate' /\ Exporting'
  BY <1>1, LibraryStays DEF Gate, Exporting
<1>4. Operation'
  BY <1>1 DEF Operation, ActiveRun
<1>5. Outcomes' /\ Catalogs'
  BY <1>1, OutcomesStay
<1> QED
  BY <1>1, <1>2, <1>3, <1>4, <1>5, LibraryStays

LEMMA BackupDeliveryRecorded ==
  ASSUME BackupInv, FailDelivery, refused' = refused \cup {call.run},
         runs' = [runs EXCEPT ![call.run] = DeliveryFails(runs[call.run])]
  PROVE  BackupInv'
<1> USE DEF BackupInv
<1>1. /\ UNCHANGED <<docs, deletions, store, requests, draining, workers, bundles, wire, catalog, up, ctl>>
      /\ call.at = "failing" /\ call' = NoCall /\ refused' = refused \cup {call.run}
      /\ runs' = [runs EXCEPT ![call.run] = DeliveryFails(runs[call.run])]
  BY DEF FailDelivery, library, meta, outcome
<1>2. call # NoCall /\ call.run \in 1 .. Len(runs)
  BY <1>1 DEF BackupTypes, NoCall
<1>3. PICK j \in 1 .. Len(runs) : j = call.run
  BY <1>2
<1>4. runs[j] \in BackupRows /\ runs[j].run # "succeeded"
  BY <1>2, <1>3 DEF BackupTypes, Operation
<1>5. PICK row \in BackupRows :
        /\ row = DeliveryFails(runs[j]) /\ row.run = "failed"
        /\ row.state = runs[j].state \/ (runs[j].state = "pending" /\ row.state = "failed")
  <2>1. PICK old \in BackupRows : old = runs[j] /\ old.run \in {"running", "failed"}
    BY <1>4 DEF BackupRows
  <2>2. FailRun(old) \in BackupRows /\ FailRun(old).run = "failed" /\ FailRun(old).state = old.state
    BY <2>1 DEF BackupRows, FailRun
  <2>3. PICK failed \in BackupRows : failed = FailRun(old) /\ failed.run = "failed" /\ failed.state = old.state
    BY <2>2
  <2>4. DeliveryFails(old) = IF old.state = "pending"
                               THEN [failed EXCEPT !.state = "failed", !.stage = "failed"] ELSE failed
    BY <2>3 DEF DeliveryFails
  <2>5. /\ [failed EXCEPT !.state = "failed", !.stage = "failed"] \in BackupRows
        /\ [failed EXCEPT !.state = "failed", !.stage = "failed"].run = "failed"
        /\ [failed EXCEPT !.state = "failed", !.stage = "failed"].state = "failed"
    BY <2>3 DEF BackupRows
  <2>6. CASE old.state = "pending"
    BY <2>1, <2>4, <2>5, <2>6
  <2>7. CASE old.state # "pending"
    BY <2>1, <2>3, <2>4, <2>7
  <2> QED
    BY <2>6, <2>7
<1>6. /\ runs' \in Seq(BackupRows) /\ Len(runs') = Len(runs) /\ runs'[j] = row
      /\ \A i \in 1 .. Len(runs) : i # j => runs'[i] = runs[i]
  BY <1>1, <1>3, <1>5, RowReplaced
<1>7. BackupTypes'
  <2>1. wire \subseteq 1 .. Len(runs) /\ refused' \subseteq 1 .. Len(runs)
    BY <1>1, <1>2 DEF BackupTypes
  <2>2. call' \in BackupCalls
    BY <1>1 DEF BackupCalls
  <2> QED
    BY <1>1, <1>6, <2>1, <2>2 DEF BackupTypes
<1>8. Gate' /\ Exporting'
  BY <1>1, LibraryStays DEF Gate, Exporting
<1>9. ctl.at \in Owning => ctl.run \in 1 .. Len(runs)
  BY DEF BackupTypes, Owning, Closed, Paused, Idle
<1>10. Operation'
  <2>1. \A i \in 1 .. Len(runs) : ActiveRun(i)' => i = Len(runs)
    BY <1>5, <1>6 DEF Operation, ActiveRun
  <2>2. ctl.at \in Owning => runs'[ctl.run].state = "running"
    BY <1>5, <1>6, <1>9 DEF Operation
  <2> QED
    BY <1>1, <1>6, <2>1, <2>2 DEF Operation
<1>11. Catalogs'
  BY <1>1, <1>6 DEF Catalogs, Descending
<1>12. Outcomes'
  <2>1. ASSUME NEW i \in 1 .. Len(runs) PROVE Pair(i)' /\ RowHolds(i)'
    <3>1. Pair(i) /\ RowHolds(i)
      BY DEF Outcomes
    <3>2. Pair(i)'
      BY <1>1, <3>1 DEF Pair, Complete
    <3>3. Clean(i)' <=> Clean(i)
      BY <1>1 DEF Clean, Complete, AuditClean, Listed, PushedOut, Range
    <3>4. CASE i = j
      <4>1. runs'[i].state # "succeeded"
        BY <1>4, <1>5, <1>6, <3>1, <3>4 DEF RowHolds
      <4> QED
        BY <1>5, <1>6, <3>2, <3>4, <4>1 DEF RowHolds
    <3>5. CASE i # j
      BY <1>1, <1>3, <1>6, <3>1, <3>2, <3>3, <3>5 DEF RowHolds
    <3> QED
      BY <3>4, <3>5
  <2>2. ctl'.at = "verified" => Clean(ctl.run)'
    <3>1. \A i : Clean(i)' <=> Clean(i)
      BY <1>1 DEF Clean, Complete, AuditClean, Listed, PushedOut, Range
    <3> QED
      BY <1>1, <3>1 DEF Outcomes
  <2> QED
    BY <1>6, <2>1, <2>2 DEF Outcomes
<1> QED
  BY <1>1, <1>7, <1>8, <1>10, <1>11, <1>12, LibraryStays

LEMMA BackupDeliveryFails ==
  ASSUME BackupInv, FailDelivery PROVE BackupInv'
BY BackupDeliveryRecorded, BackupDeliveryUnrecorded DEF FailDelivery

-----------------------------------------------------------------------------
(* The steps of the controller's thread.                                    *)

\* The rows and the catalog after a step that leaves the folders alone.
RunsKept ==
  /\ runs' \in Seq(BackupRows) /\ Len(runs') = Len(runs)
  /\ \A i \in 1 .. Len(runs) : ActiveRun(i)' => i = Len(runs)
  /\ \A i \in 1 .. Len(runs) : Pair(i)' /\ RowHolds(i)'
  /\ Catalogs'

LEMMA RunsUnchanged ==
  ASSUME BackupInv, UNCHANGED <<runs, bundles, catalog, refused>> PROVE RunsKept
<1>1. \A i : (Pair(i) <=> Pair(i)') /\ (RowHolds(i) <=> RowHolds(i)') /\ (ActiveRun(i) <=> ActiveRun(i)')
  BY DEF Pair, RowHolds, Clean, Complete, AuditClean, Listed, PushedOut, Range, ActiveRun
<1>2. Catalogs'
  BY DEF BackupInv, Catalogs, Descending
<1> QED
  BY <1>1, <1>2 DEF BackupInv, RunsKept, BackupTypes, Operation, Outcomes

LEMMA RowChanges ==
  ASSUME BackupInv, NEW j \in 1 .. Len(runs), NEW row \in BackupRows,
         runs' = [runs EXCEPT ![j] = row], UNCHANGED <<bundles, catalog, refused>>,
         row.state \in {"pending", "running"} => ActiveRun(j),
         row.state = "succeeded" => row.run = "succeeded" /\ Clean(j),
         row.run = "succeeded" => row.manifest = "recorded",
         j \in refused => row.run = "failed"
  PROVE  RunsKept /\ runs'[j] = row
<1>1. /\ runs' \in Seq(BackupRows) /\ Len(runs') = Len(runs) /\ runs'[j] = row
      /\ \A i \in 1 .. Len(runs) : i # j => runs'[i] = runs[i]
  BY RowReplaced DEF BackupInv
<1>2. ASSUME NEW i \in 1 .. Len(runs)
      PROVE  (ActiveRun(i)' => i = Len(runs)) /\ Pair(i)' /\ RowHolds(i)'
  <2>1. Pair(i) /\ RowHolds(i) /\ (ActiveRun(i) => i = Len(runs))
    BY DEF BackupInv, Outcomes, Operation
  <2>2. Pair(i)'
    BY <2>1 DEF Pair, Complete
  <2>3. Clean(i)' <=> Clean(i)
    BY DEF Clean, Complete, AuditClean, Listed, PushedOut, Range
  <2>4. CASE i = j
    BY <1>1, <2>1, <2>2, <2>3, <2>4 DEF RowHolds, ActiveRun
  <2>5. CASE i # j
    BY <1>1, <2>1, <2>2, <2>3, <2>5 DEF RowHolds, ActiveRun
  <2> QED
    BY <2>4, <2>5
<1>3. Catalogs'
  BY <1>1 DEF BackupInv, Catalogs, Descending
<1> QED
  BY <1>1, <1>2, <1>3 DEF RunsKept

LEMMA ThreadMoves ==
  ASSUME BackupInv, RunsKept, up,
         UNCHANGED <<docs, deletions, store, requests, call, wire, refused, up, bundles>>,
         draining' \in BOOLEAN, workers' \subseteq Workers,
         ctl' \in BackupThreads, ctl' # Idle => ctl'.run \in 1 .. Len(runs),
         ctl'.at \in Closed => draining' /\ (ctl.at \in Closed \/ ~InGate),
         ctl'.at = "idle_wait" => draining',
         ctl'.at \in Paused => workers' = {},
         ctl'.at \notin {"objects", "snapshot", "verified"},
         ctl'.at \in Owning => runs'[ctl'.run].state = "running",
         call # NoCall => runs'[call.run].run # "succeeded"
  PROVE  BackupInv'
<1> USE DEF BackupInv
<1>1. BackupLibrary'
  BY LibraryStays
<1>2. BackupTypes'
  BY DEF BackupTypes, RunsKept
<1>3. Gate'
  <2>1. ASSUME ~InGate PROVE call = NoCall /\ \A r \in Requests : requests[r] = NoRequest
    <3>1. \A r \in Requests : requests[r].at = "none"
      BY <2>1 DEF InGate, ActiveMutations
    <3>2. \A r \in Requests : requests[r] \in BackupRequests
      BY DEF BackupLibrary
    <3> QED
      BY <2>1, <3>1, <3>2 DEF BackupRequests, InGate
  <2> QED
    BY <2>1 DEF Gate
<1>4. Exporting'
  BY DEF Exporting
<1>5. Operation'
  BY DEF Operation, RunsKept
<1>6. Outcomes' /\ Catalogs'
  BY DEF Outcomes, RunsKept
<1> QED
  BY <1>1, <1>2, <1>3, <1>4, <1>5, <1>6

LEMMA OnThread ==
  ASSUME BackupInv, NEW s \in Stages, AtStage(s)
  PROVE  /\ up /\ ctl # Idle /\ ctl.at = s /\ ctl \in BackupThreads
         /\ ctl.run \in 1 .. Len(runs) /\ runs[ctl.run] \in BackupRows
         /\ ctl.stopped \subseteq Workers
<1>1. ctl # Idle /\ ctl \in BackupThreads /\ up /\ ctl.at = s
  BY DEF AtStage, Idle, Stages, Owning, Closed, Paused, BackupInv, BackupTypes
<1>2. ctl.run \in 1 .. Len(runs) /\ runs[ctl.run] \in BackupRows
  BY <1>1 DEF BackupInv, BackupTypes
<1> QED
  BY <1>1, <1>2 DEF BackupThreads

LEMMA Goes ==
  ASSUME ctl \in BackupThreads, ctl # Idle, NEW s \in Stages, Go(s)
  PROVE  ctl' \in BackupThreads /\ ctl'.at = s /\ ctl'.run = ctl.run
  BY DEF Go, BackupThreads

LEMMA CallStays ==
  ASSUME BackupInv, NEW j \in 1 .. Len(runs), NEW row \in BackupRows,
         runs' = [runs EXCEPT ![j] = row],
         row.run # "succeeded" \/ runs[j].run = "succeeded" \/ call = NoCall
  PROVE  call # NoCall => runs'[call.run].run # "succeeded"
<1>1. runs'[j] = row /\ \A i \in 1 .. Len(runs) : i # j => runs'[i] = runs[i]
  BY RowReplaced DEF BackupInv
<1> QED
  BY <1>1 DEF BackupInv, BackupTypes, Operation

LEMMA BackupClaims ==
  ASSUME BackupInv, ClaimBackup PROVE BackupInv'
<1>1. /\ UNCHANGED <<docs, deletions, store, requests, call, wire, refused, up>>
      /\ UNCHANGED <<draining, workers, bundles, catalog>> /\ AtStage("claim")
  BY DEF ClaimBackup, quiet, library, meta, outcome
<1>2. /\ up /\ ctl # Idle /\ ctl.at = "claim" /\ ctl \in BackupThreads
      /\ ctl.run \in 1 .. Len(runs) /\ runs[ctl.run] \in BackupRows
  BY <1>1, OnThread DEF Stages
<1>3. draining \in BOOLEAN /\ workers \subseteq Workers
      /\ (call # NoCall => runs[call.run].run # "succeeded")
  BY DEF BackupInv, BackupTypes, Operation
<1>4. PICK row \in BackupRows :
        /\ row = [runs[ctl.run] EXCEPT !.state = "running", !.stage = "draining"]
        /\ row.state = "running" /\ row.run = runs[ctl.run].run /\ row.manifest = runs[ctl.run].manifest
  <2>1. PICK old \in BackupRows : old = runs[ctl.run]
    BY <1>2
  <2>2. /\ [old EXCEPT !.state = "running", !.stage = "draining"] \in BackupRows
        /\ [old EXCEPT !.state = "running", !.stage = "draining"].state = "running"
        /\ [old EXCEPT !.state = "running", !.stage = "draining"].run = old.run
        /\ [old EXCEPT !.state = "running", !.stage = "draining"].manifest = old.manifest
    BY DEF BackupRows
  <2> QED
    BY <2>1, <2>2
<1>5. /\ \/ runs' = runs
         \/ runs[ctl.run].state = "pending" /\ runs' = [runs EXCEPT ![ctl.run] = row]
      /\ \/ ctl' = Idle
         \/ Go("choose") /\ runs[ctl.run].state = "pending" /\ runs' = [runs EXCEPT ![ctl.run] = row]
  BY <1>4 DEF ClaimBackup, SetRow, Row
<1>6. CASE runs' = [runs EXCEPT ![ctl.run] = row] /\ runs[ctl.run].state = "pending"
  <2>1. RowHolds(ctl.run) /\ ActiveRun(ctl.run)
    BY <1>2, <1>6 DEF BackupInv, Outcomes, ActiveRun
  <2>2. RunsKept /\ runs'[ctl.run] = row
    <3>1. row.run = "succeeded" => row.manifest = "recorded"
      BY <1>4, <2>1 DEF RowHolds
    <3>2. ctl.run \in refused => row.run = "failed"
      BY <1>4, <2>1 DEF RowHolds
    <3>3. row.state # "succeeded"
      BY <1>4
    <3> QED
      BY <1>1, <1>2, <1>6, <2>1, <3>1, <3>2, <3>3, RowChanges
  <2>3. call # NoCall => runs'[call.run].run # "succeeded"
    <3>1. CASE runs[ctl.run].run = "succeeded"
      BY <1>2, <1>4, <1>6, <3>1, CallStays
    <3>2. CASE row.run # "succeeded"
      BY <1>2, <1>4, <1>6, <3>2, CallStays
    <3> QED
      BY <1>4, <3>1, <3>2
  <2>4. CASE ctl' = Idle
    <3>1. ctl'.at = "idle" /\ ctl' \in BackupThreads
      BY <2>4 DEF Idle, BackupThreads
    <3> QED
      BY <1>1, <1>2, <1>3, <2>2, <2>3, <2>4, <3>1, ThreadMoves DEF Owning, Closed, Paused
  <2>5. CASE Go("choose")
    <3>1. ctl' \in BackupThreads /\ ctl'.at = "choose" /\ ctl'.run = ctl.run
      BY <1>2, <2>5, Goes DEF Stages, Owning
    <3> QED
      BY <1>1, <1>2, <1>3, <1>4, <2>2, <2>3, <3>1, ThreadMoves DEF Closed, Paused
  <2> QED
    BY <1>5, <2>4, <2>5
<1>7. CASE runs' = runs /\ ctl' = Idle
  <2>1. RunsKept
    BY <1>1, <1>7, RunsUnchanged
  <2>2. ctl'.at = "idle" /\ ctl' \in BackupThreads
    BY <1>7 DEF Idle, BackupThreads
  <2> QED
    BY <1>1, <1>2, <1>3, <1>7, <2>1, <2>2, ThreadMoves DEF Owning, Closed, Paused
<1> QED
  BY <1>5, <1>6, <1>7

\* The steps that touch neither the rows nor the folders.
LEMMA ThreadWaits ==
  ASSUME BackupInv, NEW s \in Stages, AtStage(s), NEW z \in Stages,
         UNCHANGED <<docs, deletions, store, requests, call, wire, refused, up>>,
         UNCHANGED <<runs, bundles, catalog>>,
         draining' \in BOOLEAN, workers' \subseteq Workers,
         ctl' \in BackupThreads, ctl'.at = z, ctl'.run = ctl.run,
         z \in Closed => draining' /\ (s \in Closed \/ ~InGate),
         z = "idle_wait" => draining', z \in Paused => workers' = {},
         z \notin {"objects", "snapshot", "verified"},
         z \in Owning => s \in Owning
  PROVE  BackupInv'
<1>1. up /\ ctl.at = s /\ ctl.run \in 1 .. Len(runs)
  BY OnThread
<1>2. RunsKept
  BY RunsUnchanged
<1>3. call # NoCall => runs'[call.run].run # "succeeded"
  BY DEF BackupInv, Operation
<1>4. z \in Owning => runs'[ctl'.run].state = "running"
  BY <1>1 DEF BackupInv, Operation
<1> QED
  BY <1>1, <1>2, <1>3, <1>4, ThreadMoves

LEMMA BackupWaits ==
  ASSUME BackupInv,
         ChooseDestination \/ BeginDrain \/ Drained \/ StopWorkers \/ RestartWorkers
  PROVE  BackupInv'
<1>0. draining \in BOOLEAN /\ workers \subseteq Workers
  BY DEF BackupInv, BackupTypes
<1>1. CASE ChooseDestination
  <2>1. /\ UNCHANGED <<docs, deletions, store, requests, call, wire, refused, up>>
        /\ UNCHANGED <<runs, bundles, catalog, draining, workers>>
        /\ AtStage("choose") /\ (Go("drain") \/ Go("fail"))
    BY <1>1 DEF ChooseDestination, quiet, library, meta, outcome, Raised
  <2>2. ctl # Idle /\ ctl \in BackupThreads
    BY <2>1, OnThread DEF Stages, Owning
  <2>3. PICK z \in {"drain", "fail"} : Go(z)
    BY <2>1
  <2>4. ctl' \in BackupThreads /\ ctl'.at = z /\ ctl'.run = ctl.run
    BY <2>2, <2>3, Goes DEF Stages, Owning
  <2> QED
    BY <1>0, <2>1, <2>4, ThreadWaits DEF Stages, Owning, Closed, Paused
<1>2. CASE BeginDrain
  <2>1. /\ UNCHANGED <<docs, deletions, store, requests, call, wire, refused, up>>
        /\ UNCHANGED <<runs, bundles, catalog, workers>> /\ draining' \in BOOLEAN
        /\ AtStage("drain") /\ ((Go("idle_wait") /\ draining') \/ Go("fail"))
    BY <1>0, <1>2 DEF BeginDrain, quiet, library, meta, outcome, Raised
  <2>2. ctl # Idle /\ ctl \in BackupThreads
    BY <2>1, OnThread DEF Stages, Owning
  <2>3. PICK z \in {"idle_wait", "fail"} : Go(z) /\ (z = "idle_wait" => draining')
    BY <2>1
  <2>4. ctl' \in BackupThreads /\ ctl'.at = z /\ ctl'.run = ctl.run
    BY <2>2, <2>3, Goes DEF Stages, Owning
  <2> QED
    BY <1>0, <2>1, <2>3, <2>4, ThreadWaits DEF Stages, Owning, Closed, Paused
<1>4. CASE StopWorkers
  <2>1. /\ UNCHANGED <<docs, deletions, store, requests, call, wire, refused, up>>
        /\ UNCHANGED <<runs, bundles, catalog, draining>> /\ workers' = {}
        /\ AtStage("stop") /\ ctl' = [ctl EXCEPT !.at = "exporting", !.stopped = workers]
    BY <1>4 DEF StopWorkers, quiet, library, meta, outcome
  <2>2. ctl # Idle /\ ctl \in BackupThreads /\ ctl.at = "stop"
    BY <2>1, OnThread DEF Stages, Owning, Closed
  <2>3. ctl' \in BackupThreads /\ ctl'.at = "exporting" /\ ctl'.run = ctl.run
    BY <1>0, <2>1, <2>2 DEF BackupThreads, Stages, Owning, Closed, Paused
  <2>4. draining
    BY <2>2 DEF BackupInv, Gate, Closed
  <2> QED
    BY <1>0, <2>1, <2>3, <2>4, ThreadWaits DEF Stages, Owning, Closed, Paused
<1>5. CASE RestartWorkers
  <2>1. /\ UNCHANGED <<docs, deletions, store, requests, call, wire, refused, up>>
        /\ UNCHANGED <<runs, bundles, catalog, draining>>
        /\ AtStage("restart") /\ Go("resume")
        /\ workers' \subseteq workers \cup ctl.stopped
    BY <1>5 DEF RestartWorkers, quiet, library, meta, outcome
  <2>2. ctl # Idle /\ ctl \in BackupThreads /\ ctl.stopped \subseteq Workers
    BY <2>1, OnThread DEF Stages
  <2>3. ctl' \in BackupThreads /\ ctl'.at = "resume" /\ ctl'.run = ctl.run
    BY <2>1, <2>2, Goes DEF Stages
  <2>4. workers' \subseteq Workers
    BY <1>0, <2>1, <2>2
  <2> QED
    BY <1>0, <2>1, <2>3, <2>4, ThreadWaits DEF Stages, Owning, Closed, Paused
<1>3. CASE Drained
  <2>1. /\ UNCHANGED <<docs, deletions, store, requests, call, wire, refused, up>>
        /\ UNCHANGED <<runs, bundles, catalog, workers, draining>> /\ AtStage("idle_wait")
        /\ \/ ~InGate /\ ctl' = [ctl EXCEPT !.at = "stop", !.drained = TRUE]
           \/ Go("fail")
    BY <1>3 DEF Drained, quiet, library, meta, outcome, Raised, IdleReached
  <2>2. ctl # Idle /\ ctl \in BackupThreads /\ ctl.at = "idle_wait"
    BY <2>1, OnThread DEF Stages, Owning
  <2>3. CASE Go("fail")
    <3>1. ctl' \in BackupThreads /\ ctl'.at = "fail" /\ ctl'.run = ctl.run
      BY <2>2, <2>3, Goes DEF Stages
    <3> QED
      BY <1>0, <2>1, <3>1, ThreadWaits DEF Stages, Owning, Closed, Paused
  <2>4. CASE ~InGate /\ ctl' = [ctl EXCEPT !.at = "stop", !.drained = TRUE]
    <3>1. ctl' \in BackupThreads /\ ctl'.at = "stop" /\ ctl'.run = ctl.run
      BY <2>2, <2>4 DEF BackupThreads, Stages, Owning, Closed
    <3>2. draining
      BY <2>2 DEF BackupInv, Gate
    <3> QED
      BY <1>0, <2>1, <2>4, <3>1, <3>2, ThreadWaits DEF Stages, Owning, Closed, Paused
  <2> QED
    BY <2>1, <2>3, <2>4
<1> QED
  BY <1>1, <1>2, <1>3, <1>4, <1>5

\* The reports to the API: each leaves the rows or replaces the one of the thread.
RowMay(row) ==
  /\ row.state \in {"pending", "running"} => ActiveRun(ctl.run)
  /\ row.state = "succeeded" => row.run = "succeeded" /\ Clean(ctl.run)
  /\ row.run = "succeeded" => row.manifest = "recorded"
  /\ ctl.run \in refused => row.run = "failed"
  /\ row.run # "succeeded" \/ runs[ctl.run].run = "succeeded" \/ call = NoCall

LEMMA ThreadReports ==
  ASSUME BackupInv, NEW s \in Stages, AtStage(s), NEW z \in Stages, Go(z),
         UNCHANGED <<docs, deletions, store, requests, call, wire, refused, up>>,
         UNCHANGED <<bundles, catalog, draining, workers>>,
         \/ runs' = runs /\ (z \in Owning => s \in Owning)
         \/ \E row \in BackupRows :
              /\ runs' = [runs EXCEPT ![ctl.run] = row] /\ RowMay(row)
              /\ z \in Owning => row.state = "running",
         z \in Closed => s \in Closed, z \in Paused => s \in Paused,
         z \notin {"objects", "snapshot", "verified", "idle_wait"}
  PROVE  BackupInv'
<1>1. /\ up /\ ctl # Idle /\ ctl.at = s /\ ctl \in BackupThreads
      /\ ctl.run \in 1 .. Len(runs)
  BY OnThread
<1>2. ctl' \in BackupThreads /\ ctl'.at = z /\ ctl'.run = ctl.run
  BY <1>1, Goes
<1>3. draining \in BOOLEAN /\ workers \subseteq Workers
  BY DEF BackupInv, BackupTypes
<1>4. (z \in Closed => draining) /\ (z \in Paused => workers = {})
  BY <1>1 DEF BackupInv, Gate
<1>5. CASE runs' = runs /\ (z \in Owning => s \in Owning)
  BY <1>2, <1>3, <1>4, <1>5, ThreadWaits
<1>6. ASSUME NEW row \in BackupRows,
             runs' = [runs EXCEPT ![ctl.run] = row], RowMay(row),
             z \in Owning => row.state = "running"
      PROVE  BackupInv'
  <2>1. RunsKept /\ runs'[ctl.run] = row
    <3>1. /\ row.state \in {"pending", "running"} => ActiveRun(ctl.run)
          /\ row.state = "succeeded" => row.run = "succeeded" /\ Clean(ctl.run)
          /\ row.run = "succeeded" => row.manifest = "recorded"
          /\ ctl.run \in refused => row.run = "failed"
      BY <1>6 DEF RowMay
    <3> QED
      BY <1>1, <1>6, <3>1, RowChanges
  <2>2. call # NoCall => runs'[call.run].run # "succeeded"
    <3>1. row.run # "succeeded" \/ runs[ctl.run].run = "succeeded" \/ call = NoCall
      BY <1>6 DEF RowMay
    <3> QED
      BY <1>1, <1>6, <3>1, CallStays
  <2>3. z \in Owning => runs'[ctl'.run].state = "running"
    BY <1>2, <1>6, <2>1
  <2> QED
    BY <1>1, <1>2, <1>3, <1>4, <2>1, <2>2, <2>3, ThreadMoves
<1> QED
  BY <1>5, <1>6

LEMMA BackupStages ==
  ASSUME BackupInv, NEW s \in {"exporting", "verifying"}, NEW z \in {"dump", "verify"},
         Stage(s, z)
  PROVE  BackupInv'
<1>1. /\ UNCHANGED <<docs, deletions, store, requests, call, wire, refused, up>>
      /\ UNCHANGED <<bundles, catalog, draining, workers>> /\ AtStage(s)
  BY DEF Stage, quiet, library, meta, outcome
<1>2. /\ ctl.at = s /\ ctl.run \in 1 .. Len(runs) /\ runs[ctl.run] \in BackupRows
      /\ runs[ctl.run].state = "running" /\ s \in Paused
  <2>1. s \in Stages /\ s \in Owning /\ s \in Paused
    BY DEF Stages, Owning, Closed, Paused
  <2>2. ctl.at = s /\ ctl.run \in 1 .. Len(runs) /\ runs[ctl.run] \in BackupRows
    BY <1>1, <2>1, OnThread
  <2> QED
    BY <2>1, <2>2 DEF BackupInv, Operation
<1>3. PICK old \in BackupRows : old = runs[ctl.run]
  BY <1>2
<1>4. PICK row \in BackupRows : /\ row = [old EXCEPT !.stage = s] /\ row.state = old.state
                                /\ row.run = old.run /\ row.manifest = old.manifest
  <2>1. /\ [old EXCEPT !.stage = s] \in BackupRows /\ [old EXCEPT !.stage = s].state = old.state
        /\ [old EXCEPT !.stage = s].run = old.run /\ [old EXCEPT !.stage = s].manifest = old.manifest
    BY DEF BackupRows
  <2> QED
    BY <2>1
<1>5. RowHolds(ctl.run) /\ Clean(ctl.run) \in BOOLEAN
  BY <1>2 DEF BackupInv, Outcomes, Clean
<1>6. RowMay(row) /\ row.state = "running"
  BY <1>2, <1>3, <1>4, <1>5 DEF RowMay, RowHolds, ActiveRun
<1>7. PICK y \in {z, "fail"} :
        /\ Go(y)
        /\ runs' = runs \/ runs' = [runs EXCEPT ![ctl.run] = row]
  BY <1>2, <1>3, <1>4 DEF Stage, Raised, SetRow, Row, Lost
<1>8. /\ y \in Stages /\ s \in Stages /\ s \in Owning /\ s \in Closed
      /\ y \notin {"objects", "snapshot", "verified", "idle_wait"}
  BY DEF Stages, Owning, Closed, Paused
<1>9. \/ runs' = runs /\ (y \in Owning => s \in Owning)
      \/ \E w \in BackupRows :
           /\ runs' = [runs EXCEPT ![ctl.run] = w] /\ RowMay(w)
           /\ y \in Owning => w.state = "running"
  BY <1>6, <1>7, <1>8
<1> QED
  BY <1>1, <1>2, <1>7, <1>8, <1>9, ThreadReports

LEMMA BackupExported ==
  ASSUME BackupInv, ReportExported PROVE BackupInv'
<1>1. /\ UNCHANGED <<docs, deletions, store, requests, call, wire, refused, up>>
      /\ UNCHANGED <<bundles, catalog, draining, workers>> /\ AtStage("exported")
  BY DEF ReportExported, quiet, library, meta, outcome
<1>0. "exported" \in Stages /\ "exported" \in Owning /\ "exported" \in Closed /\ "exported" \in Paused
  BY DEF Stages, Owning, Closed, Paused
<1>2. /\ ctl.at = "exported" /\ ctl.run \in 1 .. Len(runs) /\ runs[ctl.run] \in BackupRows
      /\ runs[ctl.run].state = "running" /\ call = NoCall
  <2>2. ctl.at = "exported" /\ ctl.run \in 1 .. Len(runs) /\ runs[ctl.run] \in BackupRows
    BY <1>0, <1>1, OnThread
  <2> QED
    BY <1>0, <2>2 DEF BackupInv, Operation, Gate
<1>3. PICK old \in BackupRows : old = runs[ctl.run]
  BY <1>2
<1>4. PICK row \in BackupRows :
        /\ row = [old EXCEPT !.run = "succeeded", !.stage = "verifying", !.manifest = "recorded"]
        /\ row.state = old.state /\ row.run = "succeeded" /\ row.manifest = "recorded"
  <2> DEFINE new == [old EXCEPT !.run = "succeeded", !.stage = "verifying", !.manifest = "recorded"]
  <2>1. new \in BackupRows /\ new.state = old.state /\ new.run = "succeeded" /\ new.manifest = "recorded"
    BY DEF BackupRows
  <2> QED
    BY <2>1
<1>5. RowHolds(ctl.run)
  BY <1>2 DEF BackupInv, Outcomes
<1>6. old.run = "running" => RowMay(row) /\ row.state = "running"
  BY <1>2, <1>3, <1>4, <1>5 DEF RowMay, RowHolds, ActiveRun
<1>7. PICK y \in {"verifying", "fail"} :
        /\ Go(y)
        /\ runs' = runs \/ (old.run = "running" /\ runs' = [runs EXCEPT ![ctl.run] = row])
  BY <1>2, <1>3, <1>4 DEF ReportExported, Raised, SetRow, Row, Lost
<1>8. y \in Stages /\ y \notin {"objects", "snapshot", "verified", "idle_wait"}
  BY DEF Stages, Owning, Closed, Paused
<1> QED
  BY <1>0, <1>1, <1>2, <1>6, <1>7, <1>8, ThreadReports

LEMMA BackupVerified ==
  ASSUME BackupInv, ReportVerified PROVE BackupInv'
<1>1. /\ UNCHANGED <<docs, deletions, store, requests, call, wire, refused, up>>
      /\ UNCHANGED <<bundles, catalog, draining, workers>> /\ AtStage("verified")
  BY DEF ReportVerified, quiet, library, meta, outcome
<1>0. "verified" \in Stages
  BY DEF Stages, Owning, Closed, Paused
<1>2. /\ ctl.at = "verified" /\ ctl.run \in 1 .. Len(runs) /\ runs[ctl.run] \in BackupRows
      /\ Clean(ctl.run)
  <2>2. ctl.at = "verified" /\ ctl.run \in 1 .. Len(runs) /\ runs[ctl.run] \in BackupRows
    BY <1>0, <1>1, OnThread
  <2> QED
    BY <1>0, <2>2 DEF BackupInv, Outcomes
<1>3. PICK old \in BackupRows : old = runs[ctl.run]
  BY <1>2
<1>4. PICK row \in BackupRows :
        /\ row = [old EXCEPT !.state = "succeeded", !.stage = "succeeded"]
        /\ row.state = "succeeded" /\ row.run = old.run /\ row.manifest = old.manifest
  <2> DEFINE new == [old EXCEPT !.state = "succeeded", !.stage = "succeeded"]
  <2>1. new \in BackupRows /\ new.state = "succeeded" /\ new.run = old.run /\ new.manifest = old.manifest
    BY DEF BackupRows
  <2> QED
    BY <2>1
<1>5. RowHolds(ctl.run)
  BY <1>2 DEF BackupInv, Outcomes
<1>6. old.run = "succeeded" => RowMay(row)
  BY <1>2, <1>3, <1>4, <1>5 DEF RowMay, RowHolds, ActiveRun
<1>7. PICK y \in {"restart", "fail"} :
        /\ Go(y)
        /\ runs' = runs \/ (old.run = "succeeded" /\ runs' = [runs EXCEPT ![ctl.run] = row])
  BY <1>2, <1>3, <1>4 DEF ReportVerified, Raised, SetRow, Row, Lost
<1>8. y \in Stages /\ y \notin Owning /\ y \notin Closed /\ y \notin Paused
        /\ y \notin {"objects", "snapshot", "verified", "idle_wait"}
  BY DEF Stages, Owning, Closed, Paused
<1> QED
  BY <1>0, <1>1, <1>2, <1>6, <1>7, <1>8, ThreadReports

LEMMA BackupReportsFailed ==
  ASSUME BackupInv, ReportFailed PROVE BackupInv'
<1>1. /\ UNCHANGED <<docs, deletions, store, requests, call, wire, refused, up>>
      /\ UNCHANGED <<bundles, catalog, draining, workers>> /\ AtStage("fail") /\ Go("restart")
  BY DEF ReportFailed, quiet, library, meta, outcome
<1>0. "fail" \in Stages /\ "restart" \in Stages /\ "restart" \notin Owning
        /\ "restart" \notin Closed /\ "restart" \notin Paused
  BY DEF Stages, Owning, Closed, Paused
<1>2. ctl.run \in 1 .. Len(runs) /\ runs[ctl.run] \in BackupRows
  BY <1>0, <1>1, OnThread
<1>3. PICK old \in BackupRows : old = runs[ctl.run]
  BY <1>2
<1>4. PICK failed \in BackupRows :
        /\ failed = FailRun(old) /\ failed.manifest = old.manifest
        /\ failed.run = old.run \/ failed.run = "failed"
        /\ old.run = "failed" => failed.run = "failed"
  <2>1. /\ [old EXCEPT !.run = "failed"] \in BackupRows
        /\ [old EXCEPT !.run = "failed"].run = "failed"
        /\ [old EXCEPT !.run = "failed"].manifest = old.manifest
    BY DEF BackupRows
  <2>2. CASE old.run = "running"
    BY <2>1, <2>2 DEF FailRun
  <2>3. CASE old.run # "running"
    BY <2>3 DEF FailRun
  <2> QED
    BY <2>2, <2>3
<1>5. PICK row \in BackupRows :
        /\ row = [failed EXCEPT !.state = "failed", !.stage = "failed"]
        /\ row.state = "failed" /\ row.run = failed.run /\ row.manifest = failed.manifest
  <2> DEFINE new == [failed EXCEPT !.state = "failed", !.stage = "failed"]
  <2>1. new \in BackupRows /\ new.state = "failed" /\ new.run = failed.run /\ new.manifest = failed.manifest
    BY DEF BackupRows
  <2> QED
    BY <2>1
<1>6. RowHolds(ctl.run)
  BY <1>2 DEF BackupInv, Outcomes
<1>7. RowMay(row)
  BY <1>3, <1>4, <1>5, <1>6 DEF RowMay, RowHolds
<1>8. runs' = runs \/ runs' = [runs EXCEPT ![ctl.run] = row]
  BY <1>3, <1>4, <1>5 DEF ReportFailed, SetRow, Row
<1> QED
  BY <1>0, <1>1, <1>7, <1>8, ThreadReports

LEMMA BackupResumes ==
  ASSUME BackupInv, ResumeMutations PROVE BackupInv'
<1>1. /\ UNCHANGED <<docs, deletions, store, requests, call, wire, refused, up>>
      /\ UNCHANGED <<runs, bundles, catalog, workers>> /\ ctl' = Idle /\ AtStage("resume")
  BY DEF ResumeMutations, quiet, library, meta, outcome
<1>2. up /\ workers \subseteq Workers /\ draining' \in BOOLEAN
  BY <1>1, OnThread DEF Stages, BackupInv, BackupTypes, ResumeMutations
<1>3. RunsKept
  BY <1>1, RunsUnchanged
<1>4. ctl'.at = "idle" /\ ctl' \in BackupThreads
  BY <1>1 DEF Idle, BackupThreads
<1>5. call # NoCall => runs'[call.run].run # "succeeded"
  BY <1>1 DEF BackupInv, Operation
<1> QED
  BY <1>1, <1>2, <1>3, <1>4, <1>5, ThreadMoves DEF Owning, Closed, Paused

-----------------------------------------------------------------------------
(* The steps that write the folder or the catalog, and the rest.            *)

\* The folder of the run the thread owns is replaced.
LEMMA FolderReplaced ==
  ASSUME BackupInv, NEW s \in Owning, AtStage(s), NEW z \in Stages, Go(z),
         UNCHANGED <<docs, deletions, store, requests, call, wire, refused, up>>,
         UNCHANGED <<runs, catalog, draining, workers>>,
         NEW b \in BackupBundles, bundles' = [bundles EXCEPT ![ctl.run] = b],
         s \in Paused, z # "verified",
         b.at = "complete" => b.dump = b.inventory /\ b.dump.docs \subseteq b.objects,
         z = "objects" => b.at = "dumped" /\ b.dump = Inventory,
         z = "snapshot" => b.at = "objects" /\ b.dump = Inventory
  PROVE  BackupInv'
<1> USE DEF BackupInv
<1>1. /\ up /\ ctl # Idle /\ ctl.at = s /\ ctl \in BackupThreads
      /\ ctl.run \in 1 .. Len(runs)
  BY OnThread DEF Stages
<1>2. ctl' \in BackupThreads /\ ctl'.at = z /\ ctl'.run = ctl.run
  BY <1>1, Goes
<1>3. /\ bundles' \in Seq(BackupBundles) /\ Len(bundles') = Len(runs) /\ bundles'[ctl.run] = b
      /\ \A i \in 1 .. Len(runs) : i # ctl.run => bundles'[i] = bundles[i]
  BY <1>1, BundleReplaced
<1>4. BackupLibrary' /\ Inventory' = Inventory
  BY LibraryStays
<1>5. BackupTypes'
  BY <1>1, <1>2, <1>3 DEF BackupTypes
<1>6. Gate'
  BY <1>1, <1>2 DEF Gate, Closed
<1>7. Exporting'
  BY <1>2, <1>3, <1>4 DEF Exporting
<1>8. Operation'
  BY <1>1, <1>2 DEF Operation, ActiveRun
<1>9. Catalogs'
  BY DEF Catalogs, Descending
<1>10. runs[ctl.run].state = "running"
  BY <1>1 DEF Operation
<1>11. ASSUME NEW i \in 1 .. Len(runs) PROVE Pair(i)' /\ RowHolds(i)'
  <2>1. Pair(i) /\ RowHolds(i)
    BY DEF Outcomes
  <2>2. CASE i = ctl.run
    <3>1. Pair(i)'
      BY <1>3, <2>2 DEF Pair, Complete
    <3> QED
      BY <1>10, <2>1, <2>2, <3>1 DEF RowHolds
  <2>3. CASE i # ctl.run
    BY <1>3, <2>1, <2>3 DEF Pair, RowHolds, Clean, Complete, AuditClean, Listed, PushedOut, Range
  <2> QED
    BY <2>2, <2>3
<1>12. Outcomes'
  BY <1>2, <1>11 DEF Outcomes
<1> QED
  BY <1>4, <1>5, <1>6, <1>7, <1>8, <1>9, <1>12

\* A step of the export that fails without touching the folder.
LEMMA ExportFails ==
  ASSUME BackupInv, NEW s \in Owning, AtStage(s), Go("fail"),
         UNCHANGED <<docs, deletions, store, requests, call, wire, refused, up>>,
         UNCHANGED <<runs, bundles, catalog, draining, workers>>
  PROVE  BackupInv'
<1>1. "fail" \in Stages /\ s \in Stages /\ "fail" \notin Owning /\ "fail" \notin Closed /\ "fail" \notin Paused
  BY DEF Stages, Owning, Closed, Paused
<1> QED
  BY <1>1, ThreadReports

LEMMA BackupExports ==
  ASSUME BackupInv, Export PROVE BackupInv'
<1>0. /\ {"dump", "objects", "snapshot"} \subseteq Owning /\ {"dump", "objects", "snapshot"} \subseteq Paused
      /\ {"objects", "snapshot", "exported", "fail"} \subseteq Stages
  BY DEF Stages, Owning, Closed, Paused
<1>1. docs \subseteq Keys /\ deletions \subseteq Keys /\ store \subseteq Keys /\ Inventory \in Inventories
  BY DEF BackupInv, BackupLibrary, Inventory, Inventories
<1>2. NoBundle \in BackupBundles /\ NoBundle.at = "none"
  BY DEF BackupBundles, NoBundle
<1>3. CASE Dump
  <2>1. /\ UNCHANGED <<docs, deletions, store, requests, call, wire, refused, up>>
        /\ UNCHANGED <<runs, catalog, draining, workers>> /\ AtStage("dump")
        /\ \/ bundles' = [bundles EXCEPT ![ctl.run] = [at |-> "dumped", dump |-> Inventory]]
              /\ Go("objects")
           \/ UNCHANGED bundles /\ Go("fail")
    BY <1>3 DEF Dump, quiet, library, meta, SetBundle, Raised
  <2>2. PICK b \in BackupBundles : b = [at |-> "dumped", dump |-> Inventory]
    BY <1>1 DEF BackupBundles
  <2>3. b.at = "dumped" /\ b.dump = Inventory
    BY <2>2
  <2>4. CASE bundles' = [bundles EXCEPT ![ctl.run] = b] /\ Go("objects")
    BY <1>0, <2>1, <2>3, <2>4, FolderReplaced
  <2>5. CASE UNCHANGED bundles /\ Go("fail")
    BY <1>0, <2>1, <2>5, ExportFails
  <2> QED
    BY <2>1, <2>2, <2>4, <2>5
<1>4. CASE ExportObjects
  <2>1. /\ UNCHANGED <<docs, deletions, store, requests, call, wire, refused, up>>
        /\ UNCHANGED <<runs, catalog, draining, workers>> /\ AtStage("objects")
        /\ \/ /\ bundles' = [bundles EXCEPT ![ctl.run] =
                     [at |-> "objects", dump |-> bundles[ctl.run].dump, objects |-> store]]
              /\ Go("snapshot")
           \/ bundles' = [bundles EXCEPT ![ctl.run] = NoBundle] /\ Go("fail")
    BY <1>4 DEF ExportObjects, quiet, library, meta, SetBundle, Raised
  <2>2. bundles[ctl.run].dump = Inventory
    BY <2>1 DEF AtStage, BackupInv, Exporting
  <2>3. PICK b \in BackupBundles :
          b = [at |-> "objects", dump |-> bundles[ctl.run].dump, objects |-> store]
    BY <1>1, <2>2 DEF BackupBundles
  <2>4. b.at = "objects" /\ b.dump = Inventory
    BY <2>2, <2>3
  <2>5. CASE bundles' = [bundles EXCEPT ![ctl.run] = b] /\ Go("snapshot")
    BY <1>0, <2>1, <2>4, <2>5, FolderReplaced
  <2>6. CASE bundles' = [bundles EXCEPT ![ctl.run] = NoBundle] /\ Go("fail")
    BY <1>0, <1>2, <2>1, <2>6, FolderReplaced
  <2> QED
    BY <2>1, <2>3, <2>5, <2>6
<1>5. CASE WriteManifest
  <2> DEFINE old == bundles[ctl.run]
  <2>1. /\ UNCHANGED <<docs, deletions, store, requests, call, wire, refused, up>>
        /\ UNCHANGED <<runs, catalog, draining, workers>> /\ AtStage("snapshot")
        /\ \/ /\ Inventory.docs \subseteq old.objects
              /\ bundles' = [bundles EXCEPT ![ctl.run] =
                     [at |-> "complete", dump |-> old.dump, objects |-> old.objects,
                      inventory |-> Inventory]]
              /\ Go("exported")
           \/ bundles' = [bundles EXCEPT ![ctl.run] = NoBundle] /\ Go("fail")
    BY <1>5 DEF WriteManifest, quiet, library, meta, SetBundle, Raised, ValidDatabaseObjects
  <2>2. /\ old.dump = Inventory /\ old.at = "objects"
        /\ ctl.run \in 1 .. Len(runs)
    <3>1. ctl.at = "snapshot" /\ ctl.run \in 1 .. Len(runs)
      BY <1>0, <2>1, OnThread
    <3> QED
      BY <3>1 DEF BackupInv, Exporting
  <2>3. old.objects \subseteq Keys
    <3>1. PICK o \in BackupBundles : o = old
      BY <2>2 DEF BackupInv, BackupTypes
    <3>2. o.objects \subseteq Keys
      BY <2>2, <3>1 DEF BackupBundles, NoBundle
    <3> QED
      BY <3>1, <3>2
  <2>4. PICK b \in BackupBundles :
          b = [at |-> "complete", dump |-> old.dump, objects |-> old.objects, inventory |-> Inventory]
    BY <1>1, <2>2, <2>3 DEF BackupBundles
  <2>5. b.at = "complete" /\ b.dump = b.inventory /\ b.objects = old.objects /\ b.dump.docs = Inventory.docs
    BY <2>2, <2>4
  <2>6. CASE /\ Inventory.docs \subseteq old.objects
             /\ bundles' = [bundles EXCEPT ![ctl.run] = b] /\ Go("exported")
    BY <1>0, <2>1, <2>5, <2>6, FolderReplaced
  <2>7. CASE bundles' = [bundles EXCEPT ![ctl.run] = NoBundle] /\ Go("fail")
    BY <1>0, <1>2, <2>1, <2>7, FolderReplaced
  <2> QED
    BY <2>1, <2>4, <2>6, <2>7
<1> QED
  BY <1>3, <1>4, <1>5 DEF Export

LEMMA BackupVerifies ==
  ASSUME BackupInv, VerifyPair PROVE BackupInv'
<1> USE DEF BackupInv
<1>0. "verify" \in Stages /\ "verify" \in Owning /\ "verified" \in Stages /\ "fail" \in Stages
  BY DEF Stages, Owning, Closed, Paused
<1>1. /\ UNCHANGED <<docs, deletions, store, requests, call, wire, refused, up>>
      /\ UNCHANGED <<runs, bundles, draining, workers>> /\ AtStage("verify")
      /\ \/ catalog' = catalog /\ Go("fail")
         \/ /\ ImportAccepts(bundles[ctl.run]) /\ AuditClean(bundles[ctl.run])
            /\ catalog' = Recorded(ctl.run) /\ (Go("verified") \/ Go("fail"))
  BY DEF VerifyPair, quiet, library, meta, Raised
<1>2. /\ up /\ ctl # Idle /\ ctl.at = "verify" /\ ctl \in BackupThreads
      /\ ctl.run \in 1 .. Len(runs)
  BY <1>0, <1>1, OnThread
<1>3. CASE catalog' = catalog /\ Go("fail")
  BY <1>0, <1>1, <1>3, ExportFails
<1>4. CASE /\ ImportAccepts(bundles[ctl.run]) /\ AuditClean(bundles[ctl.run])
           /\ catalog' = Recorded(ctl.run) /\ (Go("verified") \/ Go("fail"))
  <2>1. PICK z \in {"verified", "fail"} : Go(z)
    BY <1>4
  <2>2. ctl' \in BackupThreads /\ ctl'.at = z /\ ctl'.run = ctl.run
    BY <1>0, <1>2, <2>1, Goes
  <2>3. runs[ctl.run].state = "running" /\ ctl.run = Len(runs)
    BY <1>0, <1>2 DEF Operation, ActiveRun
  <2>4. /\ Catalogs' /\ Listed(ctl.run)'
        /\ \A j \in 1 .. Len(runs) : Listed(j) => Listed(j)'
    <3>1. ctl.run \in Nat /\ ctl.run > 0 /\ Len(runs') = Len(runs)
      BY <1>1, <1>2
    <3>2. PICK n \in Nat : n = ctl.run /\ n = Len(runs) /\ n > 0 /\ catalog' = Recorded(n)
      BY <1>4, <2>3, <3>1
    <3>3. Listed(n)'
      BY <3>1, <3>2, RecordedIsListed
    <3>4. Catalogs' /\ \A j \in 1 .. Len(runs) : Listed(j) => Listed(j)'
      BY <3>1, <3>2, RecordedIsListed
    <3>5. n \in Range(catalog') \/ (Len(catalog') = MaxEntries /\ \A k \in DOMAIN catalog' : catalog'[k] > n)
      BY <3>3 DEF Listed, PushedOut, Range
    <3>6. Listed(ctl.run)'
      <4>1. ctl'.run = n
        BY <2>2, <3>2
      <4> QED
        BY <3>5, <4>1 DEF Listed, PushedOut, Range
    <3> QED
      BY <3>4, <3>6
  <2>5. BackupLibrary' /\ Inventory' = Inventory
    BY <1>1, LibraryStays
  <2>6. BackupTypes'
    BY <1>1, <1>2, <2>2 DEF BackupTypes
  <2>7. Gate' /\ Exporting'
    BY <1>1, <1>2, <2>2 DEF Gate, Exporting, Closed, Paused
  <2>8. Operation'
    BY <1>1, <2>2, <2>3 DEF Operation, ActiveRun
  <2>9. Outcomes'
    <3>1. ASSUME NEW i \in 1 .. Len(runs) PROVE Pair(i)' /\ RowHolds(i)'
      <4>1. Pair(i) /\ RowHolds(i) /\ (Listed(i) => Listed(i)')
        BY <2>4 DEF Outcomes
      <4>2. Pair(i)'
        BY <1>1, <4>1 DEF Pair, Complete
      <4>3. Clean(i) => Clean(i)'
        BY <1>1, <4>1 DEF Clean, Complete, AuditClean
      <4> QED
        BY <1>1, <4>1, <4>2, <4>3 DEF RowHolds
    <3>2. Clean(ctl.run)'
      <4>1. Complete(ctl.run)' /\ AuditClean(bundles[ctl.run])'
        BY <1>1, <1>4, <2>2 DEF Complete, AuditClean, ImportAccepts, ValidManifest
      <4> QED
        BY <2>4, <4>1 DEF Clean
    <3> QED
      BY <1>1, <2>2, <3>1, <3>2 DEF Outcomes
  <2> QED
    BY <2>4, <2>5, <2>6, <2>7, <2>8, <2>9
<1> QED
  BY <1>1, <1>3, <1>4

LEMMA BackupProcesses ==
  ASSUME BackupInv, TreeStops \/ StartAll PROVE BackupInv'
<1> USE DEF BackupInv
<1>1. CASE TreeStops
  <2>1. /\ UNCHANGED <<docs, deletions, store, runs, bundles, catalog, refused>>
        /\ requests' = [r \in Requests |-> NoRequest] /\ draining' = FALSE /\ workers' = {}
        /\ call' = NoCall /\ wire' = {} /\ ctl' = Idle
    BY <1>1 DEF TreeStops, outcome
  <2>2. ctl'.at = "idle"
    BY <2>1 DEF Idle
  <2>3. BackupLibrary'
    BY <2>1 DEF BackupLibrary, BackupRequests
  <2>4. BackupTypes'
    BY <2>1 DEF BackupTypes, BackupCalls, BackupThreads
  <2>5. Gate' /\ Exporting'
    BY <2>2 DEF Gate, Exporting, Closed, Paused
  <2>6. Operation'
    BY <2>1, <2>2 DEF Operation, Owning, Closed, Paused, ActiveRun
  <2>7. Outcomes' /\ Catalogs'
    BY <2>1, <2>2, OutcomesStay
  <2> QED
    BY <2>3, <2>4, <2>5, <2>6, <2>7
<1>2. CASE StartAll
  <2>1. /\ UNCHANGED <<docs, deletions, store, requests, draining, runs, call, wire, ctl, bundles, catalog, refused>>
        /\ ~up /\ up' = TRUE /\ workers' = Workers
    BY <1>2 DEF StartAll, library, outcome
  <2>2. ctl.at = "idle"
    BY <2>1 DEF Idle, BackupTypes
  <2>3. BackupTypes'
    BY <2>1 DEF BackupTypes
  <2>4. Gate' /\ Exporting'
    BY <2>1, <2>2 DEF Gate, Exporting, Closed, Paused
  <2>5. Operation'
    BY <2>1 DEF Operation, ActiveRun
  <2>6. Outcomes' /\ Catalogs'
    BY <2>1, OutcomesStay
  <2> QED
    BY <2>1, <2>3, <2>4, <2>5, <2>6, LibraryStays
<1> QED
  BY <1>1, <1>2

LEMMA BackupSteps ==
  ASSUME BackupInv, [BackupNext]_backupVars PROVE BackupInv'
<1>1. CASE CreateBackup
  <2>1. CASE Stage("exporting", "dump") \/ Stage("verifying", "verify")
    BY <2>1, BackupStages
  <2>2. CASE ChooseDestination \/ BeginDrain \/ Drained \/ StopWorkers \/ RestartWorkers
    BY <2>2, BackupWaits
  <2> QED
    BY <1>1, <2>1, <2>2, BackupClaims, BackupExports, BackupExported, BackupVerifies,
       BackupVerified, BackupReportsFailed, BackupResumes DEF CreateBackup
<1>2. CASE UNCHANGED backupVars
  <2>1. UNCHANGED <<docs, deletions, store, requests, draining, workers, runs, call, wire, ctl, bundles,
                   catalog, up, refused>>
    BY <1>2 DEF backupVars
  <2>2. BackupTypes' /\ Operation'
    BY <2>1 DEF BackupInv, BackupTypes, Operation, ActiveRun
  <2>3. Gate' /\ Exporting'
    BY <2>1, LibraryStays DEF BackupInv, Gate, Exporting
  <2> QED
    BY <2>1, <2>2, <2>3, LibraryStays, OutcomesStay DEF BackupInv
<1>3. CASE Delivery
  BY <1>3, BackupCommands, BackupDeliveryFails DEF Delivery
<1>4. CASE TreeStops \/ StartAll
  BY <1>4, BackupProcesses
<1> QED
  BY <1>1, <1>2, <1>3, <1>4, BackupMutations, BackupDeletions, BackupStarts, BackupTimeouts DEF BackupNext

\* The inductive invariant of the backup, through requests, deletions, lost calls, failing
\* steps and stops of the process tree.
THEOREM BackupInvariance ==
  BackupSpec => []BackupInv
  BY BackupInitially, BackupSteps, PTL DEF BackupSpec

\* The two halves of every finished export agree: no request that was inside the gate, and
\* no worker, changes rows or objects between the dump and the export (drain, _stop).
THEOREM PairAgreesHolds ==
  BackupSpec => []PairAgrees
<1>1. BackupInv => PairAgrees
  BY DEF BackupInv, BackupTypes, Outcomes, Pair, PairAgrees
<1> QED
  BY <1>1, BackupInvariance, PTL

\* A run that is shown as succeeded has a complete and clean bundle that the catalog lists,
\* unless newer runs have pushed it out, and nobody was told that it failed, whatever calls
\* were lost and wherever the process tree stopped (_record_verified_backup,
\* v9_controller_record_restore_verification, v9_admin_fail_personal_backup_delivery).
THEOREM SucceededIsRestorableHolds ==
  BackupSpec => []SucceededIsRestorable
<1>1. BackupInv => SucceededIsRestorable
  <2> SUFFICES ASSUME BackupInv, NEW i \in 1 .. Len(runs), runs[i].state = "succeeded"
               PROVE  /\ runs[i].run = "succeeded" /\ runs[i].manifest = "recorded"
                      /\ Complete(i) /\ AuditClean(bundles[i])
                      /\ i \in Range(catalog) \/ PushedOut(i)
                      /\ i \notin refused
    BY DEF SucceededIsRestorable, BackupInv, BackupTypes
  <2>1. RowHolds(i)
    BY DEF BackupInv, Outcomes
  <2> QED
    BY <2>1 DEF RowHolds, Clean, Listed
<1> QED
  BY <1>1, BackupInvariance, PTL
=============================================================================
