------------------------------- MODULE Update -------------------------------
(***************************************************************************)
(* The updater of the Personal edition (ops/windows/v8a/                   *)
(* Update-RagPersonal.ps1 with personal_update.py, updates.py and          *)
(* v8a_trust.py): it downloads a signed release, verifies and unpacks it   *)
(* beside the installed one, writes a transaction file, migrates the       *)
(* database and moves the installation over file by file; it rolls back    *)
(* when a step fails, and Recover does so for a run that was cut off.      *)
(*                                                                         *)
(* A step is one durable change.  One updater runs at a time: nothing in   *)
(* the scripts enforces it.  Releases are numbered by release_sequence; a  *)
(* root is a release directory, and the run that unpacks it names it.      *)
(* Verification can refuse anything (bad signature, expired or revoked     *)
(* metadata, archive, changed storage contract); Refuse stands for all of  *)
(* them, and what cannot be refused is what the guards say.  The journal,  *)
(* the release state and the transaction are written whole or not at all:  *)
(* they are replaced.  The release contract is copied in place and may be  *)
(* left torn.  The five environment files are written in place too, and    *)
(* that each is written whole is taken on trust.                           *)
(***************************************************************************)
EXTENDS Naturals, Sequences, FiniteSets

CONSTANTS Releases,    \* release sequences the channel may offer
          Revision,    \* the schema revision of each release, and of the installed one, 0
          EnvFiles,    \* api.env, ingestion.env, deletion.env, inference.env, ocr.env
          MaxRuns,     \* bound: candidates unpacked
          MaxFaults    \* bound: failing steps and crashes

ASSUME UpdateAssumption ==
  /\ Releases \subseteq Nat \ {0}
  /\ Revision \in [Releases \cup {0} -> Nat \ {0}]   \* 0 is an empty database
  /\ IsFiniteSet(EnvFiles)
  /\ MaxRuns \in Nat /\ MaxFaults \in Nat

VARIABLES
  channel,      \* the release that releases/latest offers
  app,          \* the application runs
  backups,      \* revisions of which an intact, restore-verified backup exists
  env,          \* the root that each environment file points at
  contract,     \* the root whose personal-release.json is installed
  torn,         \* that file was cut off while it was copied in place
  journal,      \* installation-journal.json: release_root
  shortcuts,    \* the root that the Start-menu entries launch
  sequence,     \* release-state.json: release_sequence, 0 when there is none
  db,           \* the revision of the database
  txn,          \* update-transaction.json
  unpacked,     \* the release in each root
  mode, at,     \* what the updater does, and at which of its steps it is
  mem,          \* what it read when it started, and downloaded since
  overwritten,  \* history: a run replaced the transaction of an unfinished one
  faults

worldVars   == <<channel, app, backups>>
installVars == <<env, contract, torn, journal, shortcuts, sequence, db>>
runVars     == <<mode, at, mem>>
vars == <<worldVars, installVars, txn, unpacked, runVars, overwritten, faults>>

-----------------------------------------------------------------------------
Roots == DOMAIN unpacked

NoTransaction == [state |-> "none", prior |-> 0, candidate |-> 0, contract |-> 0,
                  release |-> 0, schema_changing |-> FALSE]

Fresh == [contract |-> 0, sequence |-> 0, manifest |-> 0, artifacts |-> {}, prior |-> 0]

Init ==
  /\ channel \in Releases
  /\ app = FALSE
  /\ backups \in SUBSET {Revision[0]}
  /\ env = [f \in EnvFiles |-> 0]
  /\ contract = 0 /\ torn = FALSE /\ journal = 0 /\ shortcuts = 0
  /\ sequence = 0
  /\ db = Revision[0]
  /\ txn = NoTransaction
  /\ unpacked = [r \in {0} |-> 0]
  /\ mode = "none" /\ at = 0
  /\ mem = Fresh
  /\ overwritten = FALSE
  /\ faults = 0

\* The artifacts are downloaded one by one, all before they are verified.
PrepareSteps == <<"download", "download", "verify", "trust", "unpack", "prepare">>

\* Mutant: the transaction is committed before the shortcuts follow.
InstallStepsCommitEarly ==
  <<"migrate", "migrated", "paths", "ready", "contract", "journal", "commit", "state",
    "shortcuts">>

InstallSteps ==
  <<"migrate", "migrated", "paths", "ready", "contract", "journal", "shortcuts", "state",
    "commit">>

RollbackSteps ==
  <<"mark", "paths", "contract", "journal", "shortcuts", "database", "ready", "done">>

\* Mutant: Recover forgets the release contract.
RecoverStepsKeepContract == <<"paths", "database", "journal", "shortcuts", "done">>

RecoverSteps == <<"paths", "contract", "database", "journal", "shortcuts", "done">>

Steps(m) == CASE m = "prepare"  -> PrepareSteps
              [] m = "install"  -> InstallSteps
              [] m = "rollback" -> RollbackSteps
              [] m = "recover"  -> RecoverSteps

At(step) == mode # "none" /\ Steps(mode)[at] = step

Goto(m) == mode' = m /\ at' = 1

Stop == mode' = "none" /\ at' = 0 /\ mem' = Fresh

Advance ==
  IF at < Len(Steps(mode)) THEN at' = at + 1 /\ UNCHANGED <<mode, mem>> ELSE Stop

\* Where a run moves the installation from and to.
Backward == mode \in {"rollback", "recover"}
From == IF Backward THEN txn.candidate ELSE txn.prior
To   == IF Backward THEN txn.prior ELSE txn.candidate

Unfinished == txn.state \in {"prepared", "migrated", "candidate_failed"}

-----------------------------------------------------------------------------
(* Download and verification.                                              *)

\* release-state.json; without one the sequence is 0.
InstalledState == sequence

\* The journal, the installed contract and the release state are read, and the signed
\* manifest is fetched.  An unfinished transaction is not looked at.  A torn contract
\* does not parse, and nothing is begun.
Begin ==
  /\ mode = "none"
  /\ ~app /\ ~torn
  /\ Goto("prepare")
  /\ mem' = [prior |-> journal, contract |-> contract, sequence |-> InstalledState,
             manifest |-> channel, artifacts |-> {}]
  /\ UNCHANGED <<worldVars, installVars, txn, unpacked, overwritten, faults>>

\* Each artifact is that of the latest release at that time.
Download ==
  /\ At("download")
  /\ mem' = [mem EXCEPT !.artifacts = mem.artifacts \cup {channel}]
  /\ at' = at + 1
  /\ UNCHANGED <<mode, worldVars, installVars, txn, unpacked, overwritten, faults>>

\* Sizes and checksums of the staged bytes are those that the signed manifest names.
AsManifestSays == mem.artifacts = {mem.manifest}

VerifyUpdate ==
  /\ At("verify")
  /\ AsManifestSays
  /\ Advance
  /\ UNCHANGED <<worldVars, installVars, txn, unpacked, overwritten, faults>>

\* Not older than what is installed (anti-rollback).
VerifyTrustMetadata ==
  /\ At("trust")
  /\ mem.manifest >= mem.sequence
  /\ Advance
  /\ UNCHANGED <<worldVars, installVars, txn, unpacked, overwritten, faults>>

Candidate == Cardinality(Roots)

Extract(release) ==
  unpacked' = [r \in Roots \cup {Candidate} |-> IF r \in Roots THEN unpacked[r] ELSE release]

VerifyPersonalUpdate ==
  /\ At("unpack")
  /\ Candidate <= MaxRuns
  /\ Extract(mem.manifest)
  /\ Advance
  /\ UNCHANGED <<worldVars, installVars, txn, overwritten, faults>>

\* Anything before the transaction is written may be refused, and leaves no trace but
\* a directory.
Refuse ==
  /\ mode = "prepare"
  /\ Stop
  /\ UNCHANGED <<worldVars, installVars, txn, unpacked, overwritten, faults>>

\* Mutant: the release that is installed may be installed again.
NewerOrSame(n) == n >= mem.sequence

Newer(n) == n > mem.sequence

SchemaChanging == Revision[unpacked[mem.contract]] # Revision[mem.manifest]

\* A change of the schema needs a backup of the installed revision.
Prepare ==
  /\ At("prepare")
  /\ Newer(mem.manifest)
  /\ SchemaChanging => Revision[unpacked[mem.contract]] \in backups
  /\ txn' = [state |-> "prepared", prior |-> mem.prior, candidate |-> Candidate - 1,
             contract |-> mem.contract, release |-> mem.manifest,
             schema_changing |-> SchemaChanging]
  /\ overwritten' = (overwritten \/ Unfinished)
  /\ Goto("install")
  /\ mem' = Fresh
  /\ UNCHANGED <<worldVars, installVars, unpacked, faults>>

-----------------------------------------------------------------------------
(* The steps of installing, rolling back and recovering.                   *)

SetState(step, state) ==
  /\ At(step)
  /\ txn' = [txn EXCEPT !.state = state]
  /\ Advance
  /\ UNCHANGED <<worldVars, installVars, unpacked, overwritten, faults>>

\* alembic upgrade head; it does not know a revision newer than the candidate's.
Migrate ==
  /\ At("migrate")
  /\ IF txn.schema_changing
       THEN db <= Revision[txn.release] /\ db' = Revision[txn.release]
       ELSE UNCHANGED db
  /\ Advance
  /\ UNCHANGED <<worldVars, env, contract, torn, journal, shortcuts, sequence, txn, unpacked,
                 overwritten, faults>>

Migrated == IF txn.schema_changing THEN SetState("migrated", "migrated")
                                   ELSE SetState("migrated", txn.state)

\* One file after the other; a file that does not name From stays as it is.
SetReleasePaths ==
  /\ At("paths")
  /\ LET left == {f \in EnvFiles : env[f] = From /\ From # To}
     IN \/ \E f \in left :
             /\ env' = [env EXCEPT ![f] = To]
             /\ UNCHANGED <<mode, at, mem>>
        \/ left = {} /\ Advance /\ UNCHANGED env
  /\ UNCHANGED <<worldVars, contract, torn, journal, shortcuts, sequence, db, txn, unpacked,
                 overwritten, faults>>

\* A release comes up on a database of its own revision only.
ComesUp(root) == db = Revision[unpacked[root]]

\* personal_runtime --readiness-once, beside no running application.
CandidateReadiness ==
  /\ At("ready")
  /\ ~app
  /\ ComesUp(To)
  /\ Advance
  /\ UNCHANGED <<worldVars, installVars, txn, unpacked, overwritten, faults>>

\* Copy-Item, in place.
CopyContract ==
  /\ At("contract")
  /\ contract' = IF Backward THEN txn.contract ELSE To
  /\ torn' = FALSE
  /\ Advance
  /\ UNCHANGED <<worldVars, env, journal, shortcuts, sequence, db, txn, unpacked,
                 overwritten, faults>>

SaveJournal ==
  /\ At("journal")
  /\ journal' = To
  /\ Advance
  /\ UNCHANGED <<worldVars, env, contract, torn, shortcuts, sequence, db, txn, unpacked,
                 overwritten, faults>>

SetShortcuts ==
  /\ At("shortcuts")
  /\ shortcuts' = To
  /\ Advance
  /\ UNCHANGED <<worldVars, env, contract, torn, journal, sequence, db, txn, unpacked,
                 overwritten, faults>>

WriteReleaseState ==
  /\ At("state")
  /\ sequence' = txn.release
  /\ Advance
  /\ UNCHANGED <<worldVars, env, contract, torn, journal, shortcuts, db, txn, unpacked,
                 overwritten, faults>>

\* dropdb, createdb, pg_restore of the dump that the transaction names.
RestoreDatabase ==
  /\ At("database")
  /\ db' = IF txn.schema_changing THEN Revision[unpacked[txn.contract]] ELSE db
  /\ Advance
  /\ UNCHANGED <<worldVars, env, contract, torn, journal, shortcuts, sequence, txn, unpacked,
                 overwritten, faults>>

Commit == SetState("commit", "committed")

MarkFailed == SetState("mark", "candidate_failed")

RolledBack == SetState("done", "rolled_back")

-----------------------------------------------------------------------------
(* Failures, and the rest of the world.                                    *)

\* The current step cannot succeed: the release does not come up beside a running
\* application or on this database, or alembic does not know the database's revision.
Blocked ==
  \/ At("ready") /\ (app \/ ~ComesUp(To))
  \/ At("migrate") /\ txn.schema_changing /\ db > Revision[txn.release]

Fault ==
  /\ faults < MaxFaults \/ Blocked
  /\ faults' = IF Blocked THEN faults ELSE faults + 1

\* What is cut off while it copies the contract may leave a part of it.
CutOff == torn' \in IF At("contract") THEN {torn, TRUE} ELSE {torn}

\* A step of the installation throws: the catch block rolls back.  A migration that
\* fails may have gone part of the way.
Fail ==
  /\ mode = "install"
  /\ Fault
  /\ Goto("rollback")
  /\ db' \in IF At("migrate") /\ txn.schema_changing THEN {db} \cup db..Revision[txn.release]
                                                     ELSE {db}
  /\ CutOff
  /\ UNCHANGED <<worldVars, env, contract, journal, shortcuts, sequence, txn, unpacked, mem,
                 overwritten>>

\* The process dies, or a step of a rollback or recovery throws; a database restore may
\* have got as far as an empty database, which has no revision (0).
Crash ==
  /\ mode # "none"
  /\ Fault
  /\ Stop
  /\ db' \in IF At("database") /\ txn.schema_changing THEN {db, 0} ELSE {db}
  /\ CutOff
  /\ UNCHANGED <<worldVars, env, contract, journal, shortcuts, sequence, txn, unpacked,
                 overwritten>>

\* The installed contract is read before the transaction is: Recover, which would copy
\* the prior contract back, does not start with a torn one.
Recover ==
  /\ mode = "none"
  /\ ~app /\ ~torn
  /\ Unfinished
  /\ Goto("recover")
  /\ UNCHANGED <<worldVars, installVars, txn, unpacked, mem, overwritten, faults>>

\* The application comes up with the release of the journal, and may make backups then.
Launch ==
  /\ ~app
  /\ ComesUp(journal)
  /\ app' = TRUE
  /\ UNCHANGED <<channel, backups, installVars, txn, unpacked, runVars, overwritten, faults>>

Quit ==
  /\ app
  /\ app' = FALSE
  /\ UNCHANGED <<channel, backups, installVars, txn, unpacked, runVars, overwritten, faults>>

Backup ==
  /\ app
  /\ backups' = backups \cup {db}
  /\ UNCHANGED <<channel, app, installVars, txn, unpacked, runVars, overwritten, faults>>

\* A release is published, or withdrawn.
Publish ==
  /\ channel' \in Releases \ {channel}
  /\ UNCHANGED <<app, backups, installVars, txn, unpacked, runVars, overwritten, faults>>

-----------------------------------------------------------------------------
Next ==
  \/ Begin \/ Download \/ VerifyUpdate \/ VerifyTrustMetadata \/ VerifyPersonalUpdate
  \/ Refuse \/ Prepare
  \/ Migrate \/ Migrated \/ SetReleasePaths \/ CandidateReadiness \/ CopyContract
  \/ SaveJournal \/ SetShortcuts \/ WriteReleaseState \/ RestoreDatabase
  \/ Commit \/ MarkFailed \/ RolledBack
  \/ Fail \/ Crash \/ Recover
  \/ Launch \/ Quit \/ Backup \/ Publish

Spec == Init /\ [][Next]_vars

-----------------------------------------------------------------------------
(* Properties.                                                             *)

\* Every file of the installation names root r, and the database is of its release.
Whole(r) ==
  /\ \A f \in EnvFiles : env[f] = r
  /\ contract = r /\ ~torn /\ journal = r /\ shortcuts = r
  /\ db = Revision[unpacked[r]]

\* Wherever an update is cut off, by a failing step or a crash, in the installation, in
\* its rollback or in a recovery: the installation is all one release on a database of
\* its revision, or the transaction file says that Recover is called for.  This is as
\* long as no other update was started over an unfinished one.  With a torn contract
\* Recover is called for too, but somebody has to put the file back first.
WholeOrRecoverable ==
  mode = "none" /\ ~overwritten => Whole(journal) \/ Unfinished

\* A rollback, immediate or by Recover, after any number of cut-off attempts at it,
\* brings back every part of the release that was installed before.
RolledBackIsPrior ==
  txn.state = "rolled_back" /\ mode \in {"none", "prepare"} /\ ~overwritten => Whole(txn.prior)

\* An update only ever moves the installation to a release that is newer than any
\* release it has had, whatever the channel offers in between.
OnlyForward ==
  [][mode = "install" /\ journal' # journal => unpacked[journal'] > sequence]_vars
=============================================================================
