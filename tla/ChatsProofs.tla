---------------------------- MODULE ChatsProofs ----------------------------
(***************************************************************************)
(* The turns of a chat behave as ChatTurns promises, and nothing hidden is *)
(* shown, for every number of requests, turns and documents and every      *)
(* sequence of retries, continuations, late reports, expired sessions and  *)
(* crashes.                                                                *)
(***************************************************************************)
EXTENDS Chats, FiniteSetTheorems, TLAPS

Phases == {"idle", "retrieving", "generating", "continuing", "repairing", "closing"}

\* The rows and what the requests remember keep their domains.
Types ==
  /\ doc \in [Documents -> {"readable", "hidden", "kept", "lost"}]
  /\ turn \in [Turns -> Rows]
  /\ phase \in [Streams -> Phases]
  /\ mine \in [Streams -> Turns \cup {0}]
  /\ held \in [Streams -> SUBSET Documents]
  /\ watched \in [Streams -> SUBSET Documents]

\* The turns that exist are the first ones.
UpTo(n) == \A t \in Turns : turn[t].status # "none" <=> t <= n
Ordered == \E n \in Turns \cup {0} : UpTo(n)

\* A turn that does not exist has neither sources nor text.
Blank == \A t \in Turns : turn[t].status = "none" => turn[t] = NoTurn

\* uq_chat_turns_one_generating.
OneOpen ==
  \A t, u \in Turns :
    turn[t].status = "generating" /\ turn[u].status = "generating" => t = u

\* The record of sources keeps up with the text, and a partial answer is not empty.
Drawn(row) == /\ row.text \subseteq row.sources
              /\ row.status = "length_limited" => row.text # {}
AllDrawn == \A t \in Turns : Drawn(turn[t])

\* A request that writes has something to write from, and as long as it owns its turn,
\* the turn records all of it.
Grounded ==
  \A s \in Streams : Working(s) =>
    held[s] # {} /\ (Owns(s) => held[s] \subseteq turn[mine[s]].sources)

RowInv == turn \in [Turns -> Rows] /\ Ordered /\ Blank /\ OneOpen /\ AllDrawn

Inv == Types /\ RowInv /\ Grounded

-----------------------------------------------------------------------------
\* Latest is the ordinal of the last turn.
LEMMA LatestTurn ==
  ASSUME NEW n \in Turns \cup {0}, UpTo(n)
  PROVE  Latest = n
<1>1. n \in Nat /\ \A t \in 1..n : t \in Turns
  BY ChatsAssumption DEF Turns
<1>2. Existing = 1..n
  BY <1>1 DEF Existing, UpTo, Turns
<1>3. Cardinality(1..n) = n
  BY <1>1, FS_Interval
<1> QED
  BY <1>2, <1>3 DEF Latest

\* What a request that owns its turn writes into it keeps the rows in order.
LEMMA OwnerWrites ==
  ASSUME RowInv, NEW s \in Streams, Owns(s), NEW row \in Rows, Drawn(row),
         row.status # "none",
         turn' = [turn EXCEPT ![mine[s]] = row]
  PROVE  RowInv'
<1> DEFINE m == mine[s]
<1>1. /\ m \in Turns /\ turn[m].status = "generating"
      /\ turn'[m] = row /\ \A t \in Turns : t # m => turn'[t] = turn[t]
      /\ turn' \in [Turns -> Rows]
  BY DEF Owns, RowInv
<1> HIDE DEF m
<1>2. Ordered'
  <2>1. PICK n \in Turns \cup {0} : UpTo(n)
    BY DEF RowInv, Ordered
  <2>2. UpTo(n)'
    BY <1>1, <2>1 DEF UpTo
  <2> QED
    BY <2>2 DEF Ordered
<1>3. Blank'
  BY <1>1 DEF RowInv, Blank
<1>4. OneOpen'
  BY <1>1 DEF RowInv, OneOpen
<1>5. AllDrawn'
  BY <1>1 DEF RowInv, AllDrawn
<1> QED
  BY <1>1, <1>2, <1>3, <1>4, <1>5 DEF RowInv

\* A turn is ended by the request that owns it, with text only from its own sources.
EndStates == {"complete", "failed", "interrupted", "length_limited", "citation_failed",
              "access_revoked"}
Ends(s) ==
  /\ Owns(s)
  /\ \E st \in EndStates, X \in SUBSET Documents :
       /\ X # {} => Working(s) /\ X \subseteq turn[mine[s]].text \cup held[s]
       /\ st = "length_limited" => X # {}
       /\ st = "complete" => SourcesAuthorized(s)
       /\ turn' = [turn EXCEPT ![mine[s]] = WithAnswer(turn[mine[s]], st, X)]

\* An ended turn keeps the rows in order.
LEMMA EndsRows ==
  ASSUME Inv, NEW s \in Streams, Ends(s)
  PROVE  /\ RowInv'
         /\ \A t \in Turns : turn'[t] = turn[t] \/ turn'[t].token = None
<1>1. PICK st \in EndStates, X \in SUBSET Documents :
        /\ X # {} => Working(s) /\ X \subseteq turn[mine[s]].text \cup held[s]
        /\ st = "length_limited" => X # {}
        /\ turn' = [turn EXCEPT ![mine[s]] = WithAnswer(turn[mine[s]], st, X)]
  BY DEF Ends
<1> DEFINE old == turn[mine[s]]
           row == WithAnswer(old, st, X)
<1>2. Owns(s) /\ mine[s] \in Turns /\ old \in Rows
  BY DEF Ends, Owns, Inv, Types
<1>3. old.text \subseteq old.sources
  BY <1>2 DEF Inv, RowInv, AllDrawn, Drawn
<1>4. X \subseteq old.sources
  BY <1>1, <1>2, <1>3 DEF Inv, Grounded
<1>5. row \in Rows /\ row.text = X /\ row.sources = old.sources /\ row.status = st
      /\ row.token = None
  BY <1>2 DEF WithAnswer, Rows, EndStates, Statuses
<1>6. row.status # "none"
  BY <1>5 DEF EndStates
<1> HIDE DEF row, old
<1>7. Drawn(row)
  BY <1>1, <1>4, <1>5 DEF Drawn
<1>8. turn' = [turn EXCEPT ![mine[s]] = row]
  BY <1>1 DEF row, old
<1>9. RowInv'
  BY <1>2, <1>5, <1>6, <1>7, <1>8, OwnerWrites DEF Inv
<1> QED
  BY <1>5, <1>8, <1>9 DEF Inv, Types

\* Requests other than s keep their ground when only s moves.
LEMMA OthersGrounded ==
  ASSUME Types, Grounded, NEW s \in Streams,
         \A r \in Streams \ {s} :
           phase'[r] = phase[r] /\ mine'[r] = mine[r] /\ held'[r] = held[r],
         \A t \in Turns : turn'[t] = turn[t] \/ turn'[t].token \in {s, None},
         Working(s)' => /\ held'[s] # {}
                        /\ Owns(s)' => held'[s] \subseteq turn'[mine'[s]].sources
  PROVE  Grounded'
<1> SUFFICES ASSUME NEW r \in Streams, Working(r)'
             PROVE  held'[r] # {} /\ (Owns(r)' => held'[r] \subseteq turn'[mine'[r]].sources)
  BY DEF Grounded
<1>1. CASE r = s
  BY <1>1
<1>2. CASE r # s
  <2>1. Working(r) /\ held'[r] = held[r] /\ mine'[r] = mine[r]
    BY <1>2 DEF Working
  <2>2. ASSUME Owns(r)' PROVE turn'[mine[r]] = turn[mine[r]] /\ Owns(r)
    BY <1>2, <2>1, <2>2, ChatsAssumption DEF Owns
  <2> QED
    BY <2>1, <2>2 DEF Grounded
<1> QED
  BY <1>1, <1>2

\* The requests' ways to end: what each of them does to the turn and to its memory.
Report(s) ==
  \/ Revoke(s) \/ StopAtLimit(s) \/ GiveUpCitations(s) \/ Complete(s) \/ Fail(s)
  \/ Disconnect(s) \/ Interrupt(s)

LEMMA ReportEnds ==
  ASSUME Inv, NEW s \in Streams, Report(s)
  PROVE  /\ Ends(s) \/ UNCHANGED turn
         /\ \/ Close(s)
            \/ phase[s] = "closing" /\ UNCHANGED <<phase, memoryVars>>
         /\ UNCHANGED doc
<1>1. ASSUME NEW st \in {"failed", "interrupted", "access_revoked"}, EndWithout(s, st)
      PROVE  Ends(s) \/ UNCHANGED turn
  <2>1. WithoutAnswer(turn[mine[s]], st) = WithAnswer(turn[mine[s]], st, {})
    BY DEF WithoutAnswer, WithAnswer
  <2> QED
    BY <1>1, <2>1 DEF EndWithout, Ends, EndStates
<1>2. ASSUME NEW st \in {"length_limited", "citation_failed"}, EndPartial(s, st), Working(s)
      PROVE  Ends(s) \/ UNCHANGED turn
  <2>1. SUFFICES ASSUME Owns(s) PROVE Ends(s)
    BY <1>2 DEF EndPartial
  <2>2. /\ turn[mine[s]].text \cup held[s] \in SUBSET Documents
        /\ turn[mine[s]].text \cup held[s] # {}
    BY <1>2, <2>1 DEF Inv, Types, Grounded, Owns, Rows
  <2> QED
    BY <1>2, <2>1, <2>2 DEF EndPartial, Ends, EndStates
<1>3. CASE Revoke(s)
  BY <1>1, <1>3 DEF Revoke, WithdrawTurn, envVars
<1>4. CASE StopAtLimit(s)
  BY <1>2, <1>4 DEF StopAtLimit, MarkLengthLimited, Working, envVars
<1>5. CASE GiveUpCitations(s)
  BY <1>2, <1>5 DEF GiveUpCitations, MarkCitationFailed, Working, envVars
<1>6. CASE Complete(s)
  <2>1. PICK text \in {turn[mine[s]].text \cup held[s], {}} : FinalizeTurn(s, text)
    BY <1>6 DEF Complete
  <2>2. text \in SUBSET Documents
    BY <2>1 DEF FinalizeTurn, Inv, Types, Owns, Rows
  <2>3. Ends(s)
    BY <1>6, <2>1, <2>2 DEF Ends, FinalizeTurn, EndStates, Complete
  <2> QED
    BY <1>6, <2>3 DEF Complete, envVars
<1>7. CASE Fail(s)
  BY <1>1, <1>7 DEF Fail, FailTurn, envVars
<1>8. CASE Disconnect(s)
  BY <1>8 DEF Disconnect, envVars
<1>9. CASE Interrupt(s)
  BY <1>1, <1>9 DEF Interrupt, InterruptTurn, WithdrawTurn, envVars
<1> QED
  BY <1>3, <1>4, <1>5, <1>6, <1>7, <1>8, <1>9 DEF Report

\* The end of a request keeps the invariant.
LEMMA ReportInv ==
  ASSUME Inv, NEW s \in Streams, Report(s)
  PROVE  Inv'
<1>1. /\ RowInv'
      /\ \A t \in Turns : turn'[t] = turn[t] \/ turn'[t].token = None
  BY ReportEnds, EndsRows DEF Inv, RowInv, Ordered, UpTo, Blank, OneOpen, AllDrawn
<1>2. Types'
  BY <1>1, ReportEnds DEF Inv, Types, Close, Go, memoryVars, Phases, RowInv
<1>3. /\ phase'[s] = "closing"
      /\ \A r \in Streams \ {s} :
           phase'[r] = phase[r] /\ mine'[r] = mine[r] /\ held'[r] = held[r]
  BY ReportEnds DEF Inv, Types, Close, Go, memoryVars
<1>4. Grounded'
  BY <1>1, <1>3, OthersGrounded DEF Inv, Working
<1> QED
  BY <1>1, <1>2, <1>4 DEF Inv

-----------------------------------------------------------------------------
\* A turn that is begun or taken up again, while none is open, keeps the rows in order.
LEMMA StartRows ==
  ASSUME RowInv, NoneGenerating, NEW t \in Turns, UpTo(t - 1) \/ UpTo(t),
         NEW row \in Rows, Drawn(row), row.status \in {"generating", "complete"},
         turn' = [turn EXCEPT ![t] = row]
  PROVE  RowInv'
<1>1. /\ turn'[t] = row /\ \A u \in Turns : u # t => turn'[u] = turn[u]
      /\ turn' \in [Turns -> Rows]
  BY DEF RowInv
<1>2. Ordered'
  <2>1. UpTo(t)'
    BY <1>1 DEF UpTo, Turns
  <2> QED
    BY <2>1 DEF Ordered
<1>3. Blank'
  BY <1>1 DEF RowInv, Blank
<1>4. OneOpen'
  BY <1>1 DEF NoneGenerating, OneOpen
<1>5. AllDrawn'
  BY <1>1 DEF RowInv, AllDrawn
<1> QED
  BY <1>1, <1>2, <1>3, <1>4, <1>5 DEF RowInv

\* A request that enters its turn is not writing yet, and only its own turn bears its name.
LEMMA EnterInv ==
  ASSUME Inv, RowInv', NEW s \in Streams, NEW t \in Turns, NEW over \in BOOLEAN,
         NEW D \in SUBSET Documents, Enter(s, t, over, D), UNCHANGED doc,
         \A u \in Turns : turn'[u] = turn[u] \/ turn'[u].token \in {s, None}
  PROVE  Inv'
<1>1. Types'
  BY DEF Inv, Types, Enter, Go, Phases, RowInv
<1>2. ~Working(s)'
  BY DEF Inv, Types, Enter, Go, Working
<1>3. \A r \in Streams \ {s} :
        phase'[r] = phase[r] /\ mine'[r] = mine[r] /\ held'[r] = held[r]
  BY DEF Inv, Types, Enter, Go
<1>4. Grounded'
  BY <1>2, <1>3, OthersGrounded DEF Inv
<1> QED
  BY <1>1, <1>4 DEF Inv

\* What Begin writes: a new turn behind the others.
LEMMA BeginOpens ==
  ASSUME Inv, NEW s \in Streams, Begin(s)
  PROVE  \E t \in Turns, D \in SUBSET Documents, row \in Rows :
           /\ UpTo(t - 1) /\ turn[t] = NoTurn
           /\ row.token \in {s, None} /\ row.sources = {} /\ row.text = {}
           /\ row.status \in {"generating", "complete"}
           /\ turn' = [turn EXCEPT ![t] = row]
           /\ Enter(s, t, D = {}, D)
<1>1. PICK n \in Turns \cup {0} : UpTo(n)
  BY DEF Inv, RowInv, Ordered
<1>2. Latest = n /\ n < MaxTurns
  BY <1>1, LatestTurn DEF Begin
<1>3. PICK D \in ScopeDocuments :
        /\ turn' = [turn EXCEPT ![n + 1] =
              IF D = {} THEN [NoTurn EXCEPT !.status = "complete"]
                        ELSE [NoTurn EXCEPT !.status = "generating", !.token = s]]
        /\ Enter(s, n + 1, D = {}, D)
  BY <1>2 DEF Begin
<1>4. n + 1 \in Turns /\ UpTo((n + 1) - 1) /\ turn[n + 1] = NoTurn
  BY <1>1, <1>2, ChatsAssumption DEF Turns, UpTo, Inv, RowInv, Blank
<1> DEFINE row == IF D = {} THEN [NoTurn EXCEPT !.status = "complete"]
                            ELSE [NoTurn EXCEPT !.status = "generating", !.token = s]
<1>5. /\ row \in Rows /\ row.token \in {s, None} /\ row.sources = {} /\ row.text = {}
      /\ row.status \in {"generating", "complete"}
  BY DEF NoTurn, Rows, Statuses
<1>6. D \in SUBSET Documents /\ turn' = [turn EXCEPT ![n + 1] = row]
  BY <1>3 DEF ScopeDocuments, Readable
<1> HIDE DEF row
<1> QED
  BY <1>3, <1>4, <1>5, <1>6

\* What Retry writes: the last turn again, on its old sources and text, or from nothing.
LEMMA RetryReopens ==
  ASSUME Inv, NEW s \in Streams, Retry(s)
  PROVE  \E t \in Turns, D \in SUBSET Documents, row \in Rows, over \in BOOLEAN :
           /\ UpTo(t) /\ Retryable(t)
           /\ row.token \in {s, None} /\ Drawn(row)
           /\ \/ ~over /\ row.status = "generating" /\ row.sources \in {turn[t].sources, {}}
              \/ over /\ row.status = "complete" /\ row.sources = {}
           /\ turn' = [turn EXCEPT ![t] = row]
           /\ Enter(s, t, over, D)
<1>1. PICK n \in Turns \cup {0} : UpTo(n)
  BY DEF Inv, RowInv, Ordered
<1>2. Latest = n /\ n \in Turns /\ Retryable(n)
  BY <1>1, LatestTurn DEF Retry
<1> DEFINE new == Reopened(s, turn[n])
<1>3. PICK D \in ScopeDocuments :
        /\ turn' = [turn EXCEPT ![n] =
              IF D = {} /\ new.text = {} THEN WithoutAnswer(new, "complete") ELSE new]
        /\ Enter(s, n, D = {} /\ new.text = {}, D)
  BY <1>2 DEF Retry
<1>4. turn[n] \in Rows /\ Drawn(turn[n])
  BY <1>2 DEF Inv, Types, RowInv, AllDrawn
<1>5. /\ new \in Rows /\ new.token = s /\ new.status = "generating"
      /\ new.text \subseteq new.sources /\ new.sources \in {turn[n].sources, {}}
      /\ new.text = {} => new.sources = {}
  BY <1>4 DEF Reopened, NoTurn, Rows, Statuses, Drawn
<1> HIDE DEF new
<1> DEFINE over == D = {} /\ new.text = {}
           row == IF over THEN WithoutAnswer(new, "complete") ELSE new
<1>6. row \in Rows /\ row.token \in {s, None} /\ Drawn(row)
  BY <1>5 DEF WithoutAnswer, Rows, Statuses, Drawn
<1>7. \/ ~over /\ row.status = "generating" /\ row.sources \in {turn[n].sources, {}}
      \/ over /\ row.status = "complete" /\ row.sources = {}
  BY <1>5 DEF WithoutAnswer, Rows
<1>8. /\ D \in SUBSET Documents /\ over \in BOOLEAN
      /\ turn' = [turn EXCEPT ![n] = row] /\ Enter(s, n, over, D)
  BY <1>3 DEF ScopeDocuments, Readable
<1> HIDE DEF row, over
<1> QED
  BY <1>1, <1>2, <1>6, <1>7, <1>8

LEMMA StartInv ==
  ASSUME Inv, NEW s \in Streams, Begin(s) \/ Retry(s)
  PROVE  Inv'
<1>1. NoneGenerating /\ UNCHANGED doc
  BY DEF Begin, Retry, MayStart, envVars
<1>2. CASE Begin(s)
  <2>1. PICK t \in Turns, D \in SUBSET Documents, row \in Rows :
           /\ UpTo(t - 1) /\ turn[t] = NoTurn
           /\ row.token \in {s, None} /\ row.sources = {} /\ row.text = {}
           /\ row.status \in {"generating", "complete"}
           /\ turn' = [turn EXCEPT ![t] = row]
           /\ Enter(s, t, D = {}, D)
    BY <1>2, BeginOpens
  <2>2. Drawn(row)
    BY <2>1 DEF Drawn
  <2>3. RowInv'
    BY <1>1, <2>1, <2>2, StartRows DEF Inv
  <2>4. \A u \in Turns : turn'[u] = turn[u] \/ turn'[u].token \in {s, None}
    BY <2>1 DEF Inv, Types
  <2> QED
    BY <1>1, <2>1, <2>3, <2>4, EnterInv
<1>3. CASE Retry(s)
  <2>1. PICK t \in Turns, D \in SUBSET Documents, row \in Rows, over \in BOOLEAN :
           /\ UpTo(t) /\ Retryable(t)
           /\ row.token \in {s, None} /\ Drawn(row)
           /\ \/ ~over /\ row.status = "generating" /\ row.sources \in {turn[t].sources, {}}
              \/ over /\ row.status = "complete" /\ row.sources = {}
           /\ turn' = [turn EXCEPT ![t] = row]
           /\ Enter(s, t, over, D)
    BY <1>3, RetryReopens
  <2>3. RowInv'
    BY <1>1, <2>1, StartRows DEF Inv
  <2>4. \A u \in Turns : turn'[u] = turn[u] \/ turn'[u].token \in {s, None}
    BY <2>1 DEF Inv, Types
  <2> QED
    BY <1>1, <2>1, <2>3, <2>4, EnterInv
<1> QED
  BY <1>2, <1>3

-----------------------------------------------------------------------------
\* What Snapshot does to the turn: it ends without an answer from any source, or it
\* records what the request will write from.
LEMMA SnapshotGrounds ==
  ASSUME Inv, NEW s \in Streams, Snapshot(s)
  PROVE  \E S \in SUBSET Documents :
           /\ held' = [held EXCEPT ![s] = S]
           /\ watched' = [watched EXCEPT ![s] = S]
           /\ \/ S = {} /\ Ends(s) /\ Go(s, "closing")
              \/ /\ S # {} /\ S \subseteq Authorized /\ Go(s, "generating")
                 /\ turn' = [turn EXCEPT ![mine[s]].sources = S]
                 /\ Owns(s) /\ turn[mine[s]].text = {}
<1>1. PICK S \in SUBSET (held[s] \cap Readable) :
       /\ IF S = {} THEN FinalizeTurn(s, {}) ELSE StoreSources(s, S)
       /\ held' = [held EXCEPT ![s] = S]
       /\ watched' = [watched EXCEPT ![s] = S]
       /\ Go(s, IF S = {} THEN "closing" ELSE "generating")
  BY DEF Snapshot
<1>2. S \in SUBSET Documents /\ S \subseteq Authorized
  BY <1>1 DEF Readable, Authorized
<1>3. CASE S = {}
  <2>1. FinalizeTurn(s, {}) /\ Go(s, "closing")
    BY <1>1, <1>3
  <2>2. Ends(s)
    BY <2>1 DEF Ends, FinalizeTurn, EndStates
  <2> QED
    BY <1>1, <1>2, <1>3, <2>1, <2>2
<1>4. CASE S # {}
  BY <1>1, <1>2, <1>4 DEF StoreSources, Snapshot, Continues
<1> QED
  BY <1>3, <1>4

LEMMA SnapshotInv ==
  ASSUME Inv, NEW s \in Streams, Snapshot(s)
  PROVE  Inv'
<1>1. PICK S \in SUBSET Documents :
           /\ held' = [held EXCEPT ![s] = S]
           /\ watched' = [watched EXCEPT ![s] = S]
           /\ \/ S = {} /\ Ends(s) /\ Go(s, "closing")
              \/ /\ S # {} /\ S \subseteq Authorized /\ Go(s, "generating")
                 /\ turn' = [turn EXCEPT ![mine[s]].sources = S]
                 /\ Owns(s) /\ turn[mine[s]].text = {}
  BY SnapshotGrounds
<1>2. UNCHANGED <<mine, doc>>
  BY DEF Snapshot, envVars
<1>3. \A r \in Streams \ {s} :
        phase'[r] = phase[r] /\ mine'[r] = mine[r] /\ held'[r] = held[r]
  BY <1>1, <1>2 DEF Inv, Types, Go
<1>4. CASE S = {}
  <2>1. /\ RowInv'
        /\ \A t \in Turns : turn'[t] = turn[t] \/ turn'[t].token = None
    BY <1>1, <1>4, EndsRows
  <2>2. ~Working(s)'
    BY <1>1, <1>4 DEF Go, Inv, Types, Working
  <2>3. Grounded'
    BY <1>3, <2>1, <2>2, OthersGrounded DEF Inv
  <2>4. Types'
    BY <1>1, <1>2, <1>4, <2>1 DEF Inv, Types, Go, RowInv, Phases
  <2> QED
    BY <2>1, <2>3, <2>4 DEF Inv
<1>5. CASE S # {}
  <2> DEFINE row == [turn[mine[s]] EXCEPT !.sources = S]
  <2>1. /\ mine[s] \in Turns /\ turn[mine[s]] \in Rows /\ turn[mine[s]].token = s
        /\ turn[mine[s]].status = "generating" /\ turn[mine[s]].text = {} /\ Owns(s)
    BY <1>1, <1>5 DEF Owns, Inv, Types
  <2>2. /\ row \in Rows /\ row.status = "generating" /\ row.token = s
        /\ row.text = {} /\ row.sources = S
    BY <2>1 DEF Rows
  <2>3. turn' = [turn EXCEPT ![mine[s]] = row]
    BY <1>1, <1>5, <2>1 DEF Inv, Types
  <2> HIDE DEF row
  <2>4. Drawn(row) /\ row.status # "none"
    BY <2>2 DEF Drawn
  <2>5. RowInv'
    BY <2>1, <2>2, <2>3, <2>4, OwnerWrites DEF Inv
  <2>6. \A t \in Turns : turn'[t] = turn[t] \/ turn'[t].token \in {s, None}
    BY <2>1, <2>2, <2>3 DEF Inv, Types
  <2>7. held'[s] = S /\ mine'[s] = mine[s] /\ turn'[mine'[s]] = row
    BY <1>1, <1>2, <2>1, <2>3 DEF Inv, Types
  <2>8. Grounded'
    BY <1>3, <1>5, <2>2, <2>6, <2>7, OthersGrounded DEF Inv
  <2>9. Types'
    BY <1>1, <1>2, <1>5, <2>5 DEF Inv, Types, Go, RowInv, Phases
  <2> QED
    BY <2>5, <2>8, <2>9 DEF Inv
<1> QED
  BY <1>4, <1>5

\* Rows that nobody touches stay in order.
LEMMA SameRows ==
  ASSUME RowInv, UNCHANGED turn
  PROVE  RowInv'
BY DEF RowInv, Ordered, UpTo, Blank, OneOpen, AllDrawn, Drawn

LEMMA ContinueInv ==
  ASSUME Inv, NEW s \in Streams, Continue(s)
  PROVE  Inv'
<1> DEFINE S == turn[mine[s]].sources
<1>1. /\ S # {} /\ held' = [held EXCEPT ![s] = S]
      /\ watched' = [watched EXCEPT ![s] = S \cap Readable]
      /\ Go(s, "continuing") /\ UNCHANGED <<turn, mine, doc>>
  BY DEF Continue, envVars
<1>2. S \in SUBSET Documents
  BY DEF Continue, Owns, Inv, Types, Rows
<1>3. Types' /\ RowInv'
  BY <1>1, <1>2, SameRows DEF Inv, Types, Go, Phases
<1>4. \A r \in Streams \ {s} :
        phase'[r] = phase[r] /\ mine'[r] = mine[r] /\ held'[r] = held[r]
  BY <1>1 DEF Inv, Types, Go
<1>5. held'[s] = S /\ turn'[mine'[s]].sources = S
  BY <1>1 DEF Inv, Types
<1>6. Grounded'
  BY <1>1, <1>4, <1>5, OthersGrounded DEF Inv
<1> QED
  BY <1>3, <1>6 DEF Inv

\* A writing request goes on to the next kind of draft.
LEMMA DraftInv ==
  ASSUME Inv, NEW s \in Streams, ContinueAutomatically(s) \/ RepairCitations(s)
  PROVE  Inv'
<1>1. /\ Working(s) /\ UNCHANGED <<turn, mine, held, watched, doc>>
      /\ \/ Go(s, "continuing")
         \/ Go(s, "repairing")
  BY DEF ContinueAutomatically, RepairCitations, Working, memoryVars, envVars
<1>2. Types' /\ RowInv'
  BY <1>1, SameRows DEF Inv, Types, Go, Phases
<1>3. \A r \in Streams : Working(r)' => Working(r)
  BY <1>1 DEF Inv, Types, Go, Working
<1>4. Grounded'
  BY <1>1, <1>3 DEF Inv, Grounded, Owns
<1> QED
  BY <1>2, <1>4 DEF Inv

LEMMA LeaveInv ==
  ASSUME Inv, NEW s \in Streams, Leave(s)
  PROVE  Inv'
<1>1. /\ phase' = [phase EXCEPT ![s] = "idle"] /\ mine' = [mine EXCEPT ![s] = 0]
      /\ UNCHANGED <<turn, held, watched, doc>>
  BY DEF Leave, Go
<1>2. Types' /\ RowInv'
  BY <1>1, SameRows DEF Inv, Types, Phases
<1>3. \A r \in Streams : Working(r)' => r # s /\ Working(r) /\ mine'[r] = mine[r]
  BY <1>1 DEF Inv, Types, Working
<1>4. Grounded'
  BY <1>1, <1>3 DEF Inv, Grounded, Owns
<1> QED
  BY <1>2, <1>4 DEF Inv

\* Steps that touch neither a turn nor what a request remembers.
LEMMA WorldInv ==
  ASSUME Inv, UNCHANGED <<turn, phase, mine, held, watched>>,
         doc' \in [Documents -> {"readable", "hidden", "kept", "lost"}]
  PROVE  Inv'
<1>1. RowInv'
  BY SameRows DEF Inv
<1> QED
  BY <1>1 DEF Inv, Types, Grounded, Working, Owns

\* A step of the world is one of the owner's first statement, a document, a session or
\* a service that starts.
LEMMA WorldSteps ==
  ASSUME Inv,
         \/ DeleteCheck
         \/ StartApi
         \/ \E s \in Streams : Expire(s)
         \/ \E d \in Documents : Grant(d) \/ Withhold(d) \/ DeleteDocument(d)
         \/ UNCHANGED vars
  PROVE  /\ UNCHANGED <<turn, phase, mine, held, watched>>
         /\ doc' \in [Documents -> {"readable", "hidden", "kept", "lost"}]
<1>1. doc \in [Documents -> {"readable", "hidden", "kept", "lost"}]
  BY DEF Inv, Types
<1>2. CASE DeleteCheck
  BY <1>1, <1>2 DEF DeleteCheck, memoryVars, envVars
<1>3. CASE StartApi
  BY <1>1, <1>3 DEF StartApi, memoryVars
<1>4. CASE \E s \in Streams : Expire(s)
  BY <1>1, <1>4 DEF Expire, memoryVars
<1>5. CASE \E d \in Documents : Grant(d) \/ Withhold(d) \/ DeleteDocument(d)
  BY <1>1, <1>5 DEF Grant, Withhold, DeleteDocument, SetDoc, memoryVars
<1>6. CASE UNCHANGED vars
  BY <1>1, <1>6 DEF vars, memoryVars, envVars
<1> QED
  BY <1>2, <1>3, <1>4, <1>5, <1>6

LEMMA DeleteChatInv ==
  ASSUME Inv, DeleteChat
  PROVE  Inv'
<1>1. /\ turn' = [t \in Turns |-> NoTurn] /\ UNCHANGED <<phase, mine, held, watched, doc>>
  BY DEF DeleteChat, memoryVars, envVars
<1>2. NoTurn \in Rows /\ NoTurn.status = "none" /\ NoTurn.text = {} /\ NoTurn.sources = {}
  BY DEF NoTurn, Rows, Statuses
<1>3. turn' \in [Turns -> Rows] /\ \A t \in Turns : turn'[t] = NoTurn
  BY <1>1, <1>2
<1>4. UpTo(0)'
  BY <1>2, <1>3 DEF UpTo, Turns
<1>5. RowInv'
  BY <1>2, <1>3, <1>4 DEF RowInv, Ordered, Blank, OneOpen, AllDrawn, Drawn
<1>6. Types'
  BY <1>1, <1>3 DEF Inv, Types
<1>7. Grounded'
  BY <1>1, <1>2, <1>3 DEF Inv, Grounded, Working, Owns
<1> QED
  BY <1>5, <1>6, <1>7 DEF Inv

LEMMA CrashInv ==
  ASSUME Inv, Crash
  PROVE  Inv'
<1>1. RowInv'
  BY SameRows DEF Crash, Inv
<1>2. Types'
  BY DEF Inv, Types, Crash, Phases
<1>3. Grounded'
  BY DEF Grounded, Working, Crash
<1> QED
  BY <1>1, <1>2, <1>3 DEF Inv

\* What the repair does to a row.
Repaired(row) == IF row.status = "generating" THEN WithoutAnswer(row, "interrupted") ELSE row

LEMMA RepairInv ==
  ASSUME Inv, Repair
  PROVE  Inv'
<1>1. /\ turn' = [t \in Turns |-> Repaired(turn[t])]
      /\ UNCHANGED <<phase, mine, held, watched, doc>>
  BY DEF Repair, Repaired, memoryVars, envVars
<1>2. ASSUME NEW row \in Rows
      PROVE  /\ Repaired(row) \in Rows /\ Repaired(row).status # "generating"
             /\ Repaired(row).status = "none" <=> row.status = "none"
             /\ row.status = "none" => Repaired(row) = row
             /\ Repaired(row).sources = row.sources
             /\ Drawn(row) => Drawn(Repaired(row))
  BY DEF Repaired, WithoutAnswer, Rows, Statuses, Drawn
<1>3. turn' \in [Turns -> Rows] /\ \A t \in Turns : turn[t] \in Rows /\ turn'[t] = Repaired(turn[t])
  BY <1>1, <1>2 DEF Inv, Types
<1>4. Ordered'
  <2>1. PICK n \in Turns \cup {0} : UpTo(n)
    BY DEF Inv, RowInv, Ordered
  <2>2. UpTo(n)'
    BY <1>2, <1>3, <2>1 DEF UpTo
  <2> QED
    BY <2>2 DEF Ordered
<1>5. Blank' /\ OneOpen' /\ AllDrawn'
  BY <1>2, <1>3 DEF Inv, RowInv, Blank, OneOpen, AllDrawn
<1>6. Types'
  BY <1>1, <1>3 DEF Inv, Types
<1>7. Grounded'
  BY <1>1, <1>2, <1>3 DEF Inv, Grounded, Working, Owns
<1> QED
  BY <1>3, <1>4, <1>5, <1>6, <1>7 DEF Inv, RowInv

-----------------------------------------------------------------------------
LEMMA InitInv == Init => Inv
<1> SUFFICES ASSUME Init PROVE Inv
  OBVIOUS
<1>1. NoTurn \in Rows /\ NoTurn.status = "none" /\ NoTurn.text = {} /\ NoTurn.sources = {}
  BY DEF NoTurn, Rows, Statuses
<1>2. turn \in [Turns -> Rows] /\ \A t \in Turns : turn[t] = NoTurn
  BY <1>1 DEF Init
<1>3. UpTo(0)
  BY <1>1, <1>2 DEF UpTo, Turns
<1>4. RowInv
  BY <1>1, <1>2, <1>3 DEF RowInv, Ordered, Blank, OneOpen, AllDrawn, Drawn
<1>5. Types
  BY <1>2 DEF Init, Types, Phases
<1>6. Grounded
  BY DEF Init, Grounded, Working
<1> QED
  BY <1>4, <1>5, <1>6 DEF Inv

LEMMA NextInv == Inv /\ [Next]_vars => Inv'
<1> SUFFICES ASSUME Inv, [Next]_vars PROVE Inv'
  OBVIOUS
<1>1. ASSUME NEW s \in Streams,
             \/ Begin(s) \/ Retry(s) \/ Snapshot(s) \/ Continue(s) \/ Revoke(s) \/ Complete(s)
             \/ ContinueAutomatically(s) \/ StopAtLimit(s) \/ RepairCitations(s)
             \/ GiveUpCitations(s) \/ Fail(s) \/ Disconnect(s) \/ Interrupt(s) \/ Leave(s)
      PROVE  Inv'
  BY <1>1, StartInv, SnapshotInv, ContinueInv, DraftInv, ReportInv, LeaveInv DEF Report
<1>2. CASE DeleteChat
  BY <1>2, DeleteChatInv
<1>3. CASE Crash
  BY <1>3, CrashInv
<1>4. CASE Repair
  BY <1>4, RepairInv
<1>5. CASE \/ DeleteCheck \/ StartApi \/ (\E s \in Streams : Expire(s))
           \/ (\E d \in Documents : Grant(d) \/ Withhold(d) \/ DeleteDocument(d))
           \/ UNCHANGED vars
  BY <1>5, WorldSteps, WorldInv
<1> QED
  BY <1>1, <1>2, <1>3, <1>4, <1>5 DEF Next

\* The rows stay in order, one turn at most is open, and the record of sources keeps up
\* with the text, whatever the requests, the owner and the service do.
THEOREM Invariance == Spec => []Inv
BY InitInv, NextInv, PTL DEF Spec

\* What the owner is shown was written from documents that he may see now: the sources
\* by which v4_chat_history redacts an answer cover its text.
THEOREM NothingHiddenIsShownHolds == Spec => []NothingHiddenIsShown
<1>1. Inv => NothingHiddenIsShown
  BY DEF Inv, RowInv, AllDrawn, Drawn, NothingHiddenIsShown, Shown, Redacted
<1> QED
  BY <1>1, Invariance, PTL

-----------------------------------------------------------------------------
\* A request writes only to the turn it owns.
LEMMA OwnerTouches ==
  ASSUME Inv, NEW s \in Streams, NEW t \in Turns, turn'[t] # turn[t],
         Snapshot(s) \/ Report(s)
  PROVE  turn[t].token = s
<1>1. Owns(s) /\ \E row : turn' = [turn EXCEPT ![mine[s]] = row]
  <2>1. CASE Snapshot(s)
    <3>1. \/ Ends(s)
          \/ Owns(s) /\ \E S \in SUBSET Documents : turn' = [turn EXCEPT ![mine[s]].sources = S]
      BY <2>1, SnapshotGrounds
    <3> QED
      BY <3>1 DEF Ends
  <2>2. CASE Report(s)
    BY <2>2, ReportEnds DEF Ends
  <2> QED
    BY <2>1, <2>2
<1>2. t = mine[s]
  BY <1>1 DEF Inv, Types
<1> QED
  BY <1>1, <1>2 DEF Owns

\* The tokens fence off the late reports of an earlier attempt at a turn.
THEOREM OthersNeverEndATurnHolds == Spec => OthersNeverEndATurn
<1> DEFINE Fenced ==
      \A t \in Turns :
        turn[t].status = "generating" /\ turn'[t] # turn[t] =>
          \/ phase'[turn[t].token] # phase[turn[t].token]
          \/ phase[turn[t].token] = "closing"
          \/ ~up
          \/ ~alive'
<1>1. Inv /\ [Next]_vars => [Fenced]_vars
  <2> SUFFICES ASSUME Inv, Next, NEW t \in Turns, turn[t].status = "generating",
                      turn'[t] # turn[t]
               PROVE  \/ phase'[turn[t].token] # phase[turn[t].token]
                      \/ phase[turn[t].token] = "closing"
                      \/ ~up
                      \/ ~alive'
    BY DEF Fenced
  <2>1. ASSUME NEW s \in Streams, Snapshot(s) \/ Report(s)
        PROVE  turn[t].token = s
    BY <2>1, OwnerTouches
  <2>2. ASSUME NEW s \in Streams, Snapshot(s)
        PROVE  phase'[s] # phase[s]
    BY <2>2 DEF Snapshot, Go, Inv, Types
  <2>3. ASSUME NEW s \in Streams, Report(s)
        PROVE  phase'[s] # phase[s] \/ phase[s] = "closing"
    BY <2>3, ReportEnds DEF Close, Go, Inv, Types
  <2>4. ASSUME NEW s \in Streams, Begin(s) \/ Retry(s)
        PROVE  FALSE
    BY <2>4 DEF Begin, Retry, MayStart, NoneGenerating
  <2>5. ASSUME NEW s \in Streams,
               \/ Continue(s) \/ ContinueAutomatically(s) \/ RepairCitations(s) \/ Leave(s)
               \/ Expire(s)
        PROVE  FALSE
    BY <2>5 DEF Continue, ContinueAutomatically, RepairCitations, Leave, Expire
  <2>6. CASE DeleteCheck \/ StartApi
             \/ \E d \in Documents : Grant(d) \/ Withhold(d) \/ DeleteDocument(d)
    BY <2>6, WorldSteps
  <2>7. CASE DeleteChat \/ Repair \/ Crash
    BY <2>7 DEF DeleteChat, Repair, Crash
  <2> QED
    BY <2>1, <2>2, <2>3, <2>4, <2>5, <2>6, <2>7 DEF Next, Report
<1> QED
  BY <1>1, Invariance, PTL DEF Spec, OthersNeverEndATurn

-----------------------------------------------------------------------------
(* The refinement.  A turn's row is seen as its state and its basis.       *)

LEMMA StateOfStatus ==
  /\ StateOf("none") = "none"
  /\ StateOf("generating") = "open"
  /\ StateOf("complete") = "answered"
  /\ StateOf("access_revoked") = "withdrawn"
  /\ \A st \in {"failed", "interrupted", "length_limited", "citation_failed"} :
       StateOf(st) = "paused"
BY DEF StateOf

LEMMA StateOfKinds ==
  ASSUME NEW st \in Statuses
  PROVE  /\ StateOf(st) = "none" <=> st = "none"
         /\ StateOf(st) = "open" <=> st = "generating"
BY DEF StateOf, Statuses

\* The view of a step that writes one row, and of one that writes none.
LEMMA RowView ==
  ASSUME Types, NEW t \in Turns, NEW row \in Rows, turn' = [turn EXCEPT ![t] = row], UNCHANGED doc
  PROVE  /\ States' = [States EXCEPT ![t] = StateOf(row.status)]
         /\ Bases' = [Bases EXCEPT ![t] = row.sources]
         /\ UNCHANGED Authorized
BY DEF Types, States, Bases, Authorized

LEMMA SameView ==
  ASSUME UNCHANGED turn
  PROVE  UNCHANGED <<States, Bases>>
BY DEF States, Bases

\* Who is seen as open or absent.
LEMMA ViewKinds ==
  ASSUME Types, NEW t \in Turns
  PROVE  /\ States[t] = StateOf(turn[t].status) /\ Bases[t] = turn[t].sources
         /\ States[t] = "none" <=> turn[t].status = "none"
         /\ States[t] = "open" <=> turn[t].status = "generating"
<1>1. turn[t].status \in Statuses
  BY DEF Types, Rows
<1> QED
  BY <1>1, StateOfKinds DEF States, Bases

\* Every end of a turn is an answer, a pause or a withdrawal.
LEMMA EndsStep ==
  ASSUME Inv, NEW s \in Streams, Ends(s), UNCHANGED doc
  PROVE  Abstract!Next
<1>1. PICK st \in EndStates, X \in SUBSET Documents :
        /\ st = "complete" => SourcesAuthorized(s)
        /\ turn' = [turn EXCEPT ![mine[s]] = WithAnswer(turn[mine[s]], st, X)]
  BY DEF Ends
<1>2. PICK m \in Turns : m = mine[s] /\ turn[m].status = "generating" /\ turn[m] \in Rows
  BY DEF Ends, Owns, Inv, Types
<1>3. PICK row \in Rows : /\ row.status = st /\ row.sources = turn[m].sources
                         /\ turn' = [turn EXCEPT ![m] = row]
  <2>1. /\ WithAnswer(turn[m], st, X) \in Rows
        /\ WithAnswer(turn[m], st, X).status = st
        /\ WithAnswer(turn[m], st, X).sources = turn[m].sources
    BY <1>2 DEF WithAnswer, Rows, EndStates, Statuses
  <2> QED
    BY <1>1, <1>2, <2>1
<1>4. /\ States' = [States EXCEPT ![m] = StateOf(st)]
      /\ Bases' = [Bases EXCEPT ![m] = turn[m].sources]
      /\ UNCHANGED Authorized
  <2>1. /\ States' = [States EXCEPT ![m] = StateOf(row.status)]
        /\ Bases' = [Bases EXCEPT ![m] = row.sources]
        /\ UNCHANGED Authorized
    BY <1>3, RowView DEF Inv
  <2> QED
    BY <1>3, <2>1
<1>5. Bases' = Bases
  BY <1>2, <1>4 DEF Bases
<1>6. States[m] = "open" /\ Bases[m] = turn[m].sources
  BY <1>2, ViewKinds DEF Inv
<1>7. m \in Abstract!Turns
  BY <1>2 DEF Turns, Abstract!Turns
<1>8. CASE st = "complete"
  <2>1. Abstract!Answer(m)
    BY <1>1, <1>2, <1>4, <1>5, <1>6, <1>8, StateOfStatus
    DEF Abstract!Answer, Abstract!Set, SourcesAuthorized
  <2> QED
    BY <1>7, <2>1 DEF Abstract!Next
<1>9. CASE st = "access_revoked"
  <2>1. Abstract!Withdraw(m)
    BY <1>4, <1>5, <1>6, <1>9, StateOfStatus DEF Abstract!Withdraw, Abstract!Set
  <2> QED
    BY <1>7, <2>1 DEF Abstract!Next
<1>10. CASE st \in {"failed", "interrupted", "length_limited", "citation_failed"}
  <2>1. Abstract!Pause(m)
    BY <1>4, <1>5, <1>6, <1>10, StateOfStatus DEF Abstract!Pause, Abstract!Set
  <2> QED
    BY <1>7, <2>1 DEF Abstract!Next
<1> QED
  BY <1>8, <1>9, <1>10 DEF EndStates

LEMMA BeginStep ==
  ASSUME Inv, NEW s \in Streams, Begin(s)
  PROVE  Abstract!Next
<1>1. PICK t \in Turns, D \in SUBSET Documents, row \in Rows :
        /\ UpTo(t - 1) /\ turn[t] = NoTurn
        /\ row.sources = {}
        /\ row.status \in {"generating", "complete"}
        /\ turn' = [turn EXCEPT ![t] = row]
  BY BeginOpens
<1>2. UNCHANGED doc /\ NoneGenerating
  BY DEF Begin, MayStart, envVars
<1>3. /\ States' = [States EXCEPT ![t] = StateOf(row.status)]
      /\ Bases' = [Bases EXCEPT ![t] = {}]
      /\ UNCHANGED Authorized
  BY <1>1, <1>2, RowView DEF Inv
<1>4. Bases' = Bases
  <2>1. Bases[t] = {}
    BY <1>1 DEF Bases, NoTurn
  <2>2. [Bases EXCEPT ![t] = {}] = Bases
    BY <2>1 DEF Bases
  <2> QED
    BY <1>3, <2>2
<1>5. States[t] = "none"
  BY <1>1, ViewKinds DEF Inv, NoTurn
<1>6. \A u \in Turns : u < t <=> States[u] # "none"
  BY <1>1, ViewKinds DEF Inv, UpTo, Turns
<1>7. \A u \in Turns : States[u] # "open"
  BY <1>2, ViewKinds DEF Inv, NoneGenerating
<1>8. Abstract!Open(t)
  BY <1>1, <1>3, <1>4, <1>5, <1>6, <1>7, StateOfStatus
  DEF Abstract!Open, Abstract!Set, Abstract!NoneOpen, Abstract!Turns, Turns
<1> QED
  BY <1>1, <1>8 DEF Abstract!Next, Abstract!Turns, Turns

LEMMA RetryStep ==
  ASSUME Inv, NEW s \in Streams, Retry(s)
  PROVE  Abstract!Next
<1>1. PICK t \in Turns, row \in Rows, over \in BOOLEAN :
        /\ UpTo(t) /\ Retryable(t)
        /\ \/ ~over /\ row.status = "generating" /\ row.sources \in {turn[t].sources, {}}
           \/ over /\ row.status = "complete" /\ row.sources = {}
        /\ turn' = [turn EXCEPT ![t] = row]
  BY RetryReopens
<1>2. UNCHANGED doc /\ NoneGenerating
  BY DEF Retry, MayStart, envVars
<1>3. /\ States' = [States EXCEPT ![t] = StateOf(row.status)]
      /\ Bases' = [Bases EXCEPT ![t] = row.sources]
      /\ UNCHANGED Authorized
  BY <1>1, <1>2, RowView DEF Inv
<1>4. States[t] = "paused"
  BY <1>1, ViewKinds, StateOfStatus DEF Inv, Retryable
<1>5. \A u \in Turns : States[u] # "open"
  BY <1>2, ViewKinds DEF Inv, NoneGenerating
<1>6. \A u \in Turns : u > t => States[u] = "none"
  BY <1>1, ViewKinds DEF Inv, UpTo, Turns
<1>7. Abstract!Last(t) /\ Abstract!NoneOpen
  BY <1>4, <1>5, <1>6 DEF Abstract!Last, Abstract!NoneOpen, Abstract!Turns, Turns
<1>8. \/ States' = [States EXCEPT ![t] = "open"] /\ Bases' \in {Bases, [Bases EXCEPT ![t] = {}]}
      \/ States' = [States EXCEPT ![t] = "answered"] /\ Bases' = [Bases EXCEPT ![t] = {}]
  <2>1. [Bases EXCEPT ![t] = turn[t].sources] = Bases
    BY DEF Bases
  <2> QED
    BY <1>1, <1>3, <2>1, StateOfStatus
<1>9. Abstract!Reopen(t)
  BY <1>3, <1>4, <1>7, <1>8 DEF Abstract!Reopen, Abstract!Set
<1> QED
  BY <1>1, <1>9 DEF Abstract!Next, Abstract!Turns, Turns

LEMMA SnapshotStep ==
  ASSUME Inv, NEW s \in Streams, Snapshot(s)
  PROVE  Abstract!Next
<1>1. UNCHANGED doc
  BY DEF Snapshot, envVars
<1>2. CASE Ends(s)
  BY <1>1, <1>2, EndsStep
<1>3. ASSUME NEW S \in SUBSET Documents, S \subseteq Authorized, Owns(s),
             turn' = [turn EXCEPT ![mine[s]].sources = S]
      PROVE  Abstract!Next
  <2>1. PICK m \in Turns : m = mine[s] /\ turn[m] \in Rows /\ turn[m].status = "generating"
    BY <1>3 DEF Owns, Inv, Types
  <2>2. PICK row \in Rows : /\ row.sources = S /\ row.status = "generating"
                           /\ turn' = [turn EXCEPT ![m] = row]
    <3>1. /\ [turn[m] EXCEPT !.sources = S] \in Rows
          /\ [turn[m] EXCEPT !.sources = S].sources = S
          /\ [turn[m] EXCEPT !.sources = S].status = "generating"
      BY <2>1 DEF Rows
    <3> QED
      BY <1>3, <2>1, <3>1
  <2>3. /\ States' = [States EXCEPT ![m] = "open"]
        /\ Bases' = [Bases EXCEPT ![m] = S]
        /\ UNCHANGED Authorized
    <3>1. /\ States' = [States EXCEPT ![m] = StateOf(row.status)]
          /\ Bases' = [Bases EXCEPT ![m] = row.sources]
          /\ UNCHANGED Authorized
      BY <1>1, <2>2, RowView DEF Inv
    <3> QED
      BY <2>2, <3>1, StateOfStatus
  <2>4. States[m] = "open"
    BY <2>1, ViewKinds DEF Inv
  <2>5. States' = States
    BY <2>1, <2>3, <2>4 DEF States
  <2>6. Abstract!Ground(m)
    BY <1>3, <2>3, <2>4, <2>5 DEF Abstract!Ground
  <2> QED
    BY <2>1, <2>6 DEF Abstract!Next, Abstract!Turns, Turns
<1> QED
  BY <1>2, <1>3, SnapshotGrounds

\* The repair of a stopped service pauses the one turn that was open, if any.
LEMMA RepairStep ==
  ASSUME Inv, Repair
  PROVE  Abstract!Next \/ UNCHANGED Abstract!vars
<1>1. /\ turn' = [t \in Turns |-> Repaired(turn[t])] /\ UNCHANGED doc
  BY DEF Repair, Repaired, envVars
<1>2. UNCHANGED Authorized
  BY <1>1 DEF Authorized
<1>3. CASE \A t \in Turns : turn[t].status # "generating"
  <2>1. turn' = turn
    BY <1>1, <1>3 DEF Repaired, Inv, Types
  <2> QED
    BY <1>2, <2>1, SameView DEF Abstract!vars
<1>4. ASSUME NEW m \in Turns, turn[m].status = "generating"
      PROVE  Abstract!Next
  <2> DEFINE row == WithoutAnswer(turn[m], "interrupted")
  <2>1. row \in Rows /\ row.status = "interrupted" /\ row.sources = turn[m].sources
    BY DEF WithoutAnswer, Inv, Types, Rows, Statuses
  <2>2. turn' = [turn EXCEPT ![m] = row]
    BY <1>1, <1>4 DEF Repaired, Inv, Types, RowInv, OneOpen
  <2> HIDE DEF row
  <2>3. /\ States' = [States EXCEPT ![m] = "paused"]
        /\ Bases' = [Bases EXCEPT ![m] = turn[m].sources]
    BY <1>1, <2>1, <2>2, RowView, StateOfStatus DEF Inv
  <2>4. Bases' = Bases
    BY <2>3 DEF Bases
  <2>5. States[m] = "open"
    BY <1>4, ViewKinds DEF Inv
  <2>6. Abstract!Pause(m)
    BY <1>2, <2>3, <2>4, <2>5 DEF Abstract!Pause, Abstract!Set
  <2> QED
    BY <2>6 DEF Abstract!Next, Abstract!Turns, Turns
<1> QED
  BY <1>3, <1>4

LEMMA DeleteChatStep ==
  ASSUME Inv, DeleteChat
  PROVE  Abstract!Next
<1>1. turn' = [t \in Turns |-> NoTurn] /\ UNCHANGED doc
  BY DEF DeleteChat, envVars
<1>2. /\ States' = [t \in Turns |-> "none"]
      /\ Bases' = [t \in Turns |-> {}]
      /\ UNCHANGED Authorized
  BY <1>1, StateOfStatus DEF States, Bases, Authorized, NoTurn
<1> QED
  BY <1>2 DEF Abstract!Next, Abstract!Drop, Abstract!Turns, Turns

\* A step that leaves the turns alone changes at most what the owner may see.
LEMMA IdleStep ==
  ASSUME UNCHANGED turn
  PROVE  Abstract!Next
<1>1. Authorized' \in SUBSET Documents
  BY DEF Authorized
<1> QED
  BY <1>1, SameView DEF Abstract!Next, Abstract!Access

LEMMA Implements == Inv /\ [Next]_vars => [Abstract!Next]_(Abstract!vars)
<1> SUFFICES ASSUME Inv, [Next]_vars PROVE Abstract!Next \/ UNCHANGED Abstract!vars
  OBVIOUS
<1>1. ASSUME NEW s \in Streams, Begin(s) \/ Retry(s) \/ Snapshot(s)
      PROVE  Abstract!Next
  BY <1>1, BeginStep, RetryStep, SnapshotStep
<1>2. ASSUME NEW s \in Streams, Report(s)
      PROVE  Abstract!Next
  BY <1>2, ReportEnds, EndsStep, IdleStep
<1>3. ASSUME NEW s \in Streams,
             \/ Continue(s) \/ ContinueAutomatically(s) \/ RepairCitations(s) \/ Leave(s)
             \/ Expire(s)
      PROVE  UNCHANGED turn
  BY <1>3 DEF Continue, ContinueAutomatically, RepairCitations, Leave, Expire
<1>4. CASE DeleteCheck \/ StartApi \/ UNCHANGED vars
           \/ \E d \in Documents : Grant(d) \/ Withhold(d) \/ DeleteDocument(d)
  BY <1>4, WorldSteps, IdleStep
<1>5. CASE Crash
  BY <1>5, IdleStep DEF Crash
<1>6. CASE DeleteChat
  BY <1>6, DeleteChatStep
<1>7. CASE Repair
  BY <1>7, RepairStep
<1> QED
  BY <1>1, <1>2, <1>3, <1>4, <1>5, <1>6, <1>7, IdleStep DEF Next, Report

LEMMA ImplementsInit == Init => Abstract!Init
<1> SUFFICES ASSUME Init PROVE Abstract!Init
  OBVIOUS
<1>1. /\ States = [t \in Turns |-> "none"]
      /\ Bases = [t \in Turns |-> {}]
      /\ Authorized \in SUBSET Documents
  BY StateOfStatus DEF Init, States, Bases, Authorized, NoTurn
<1> QED
  BY <1>1 DEF Abstract!Init, Abstract!Turns, Turns

\* The requests, the stored functions and the repair implement the promise of ChatTurns:
\* one open turn, the last; answers only on sources that may be seen at that moment;
\* answers and withdrawals are final.
THEOREM ImplementsTurnsHolds == Spec => ImplementsTurns
BY ImplementsInit, Implements, Invariance, PTL DEF Spec, ImplementsTurns, Abstract!Spec

=============================================================================
