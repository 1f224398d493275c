------------------------------- MODULE Chats -------------------------------
(***************************************************************************)
(* The turns of one chat: requests of its owner begin or retry a turn,     *)
(* retrieve documents, generate an answer in a stream that may fail, hit   *)
(* its limit or lose its client at any time, while grants change,          *)
(* documents are deleted, sessions end and the API process stops.          *)
(*                                                                         *)
(* A stored function is one step: each locks the turn's row, and those     *)
(* that judge access hold the security epoch or the library lock.  Between *)
(* steps a stream only has what it remembers.  The name of a request       *)
(* stands for the generation token it draws; it is drawn again only when   *)
(* neither a turn nor a request remembers it.  A request that is refused   *)
(* changes nothing: not signed in, no such chat or turn, not the latest,   *)
(* not retryable, or another turn is generating.                           *)
(***************************************************************************)
EXTENDS Naturals, FiniteSets

CONSTANTS Documents,
          Streams,      \* requests of the owner that may run at a time
          None,
          MaxTurns,     \* bound: turns of the chat
          MaxCrashes,   \* bound: crashes of the API process
          MayExpire     \* whether sessions may end

ASSUME ChatsAssumption ==
  /\ None \notin Streams
  /\ MaxTurns \in Nat \ {0}
  /\ MaxCrashes \in Nat
  /\ MayExpire \in BOOLEAN

VARIABLES
  doc,       \* readable or hidden; kept or lost once deleted, as access was then
  alive,     \* the chat exists
  turn,      \* chat_turns and turn_sources, by ordinal
  phase,     \* what each request is doing
  mine,      \* the turn it works on
  held,      \* the documents it may search (BeginTurn.document_ids), then the sources
             \* in its prompt (PreparedChatTurn.sources)
  watched,   \* those sources that were not deleted when it read them
  expired,   \* running requests whose session has ended
  deleting,  \* a deletion of the chat has found no active generation
  up,        \* the API process runs
  crashes

chatVars   == <<alive, deleting>>
memoryVars == <<mine, held, watched>>
envVars    == <<doc, expired, up, crashes>>
vars == <<chatVars, turn, phase, memoryVars, envVars>>

-----------------------------------------------------------------------------
Turns == 1..MaxTurns

Statuses == {"none", "generating", "complete", "failed", "interrupted", "length_limited",
             "citation_failed", "access_revoked"}

\* text: the documents whose excerpts were the sources in the prompts that the final
\* or partial answer was written from.  Earlier answers also stand in a prompt, as
\* conversation history, which is no evidence; they are not followed here.
Rows == [status  : Statuses,
         token   : Streams \cup {None},
         sources : SUBSET Documents,
         text    : SUBSET Documents]

NoTurn == [status |-> "none", token |-> None, sources |-> {}, text |-> {}]

Init ==
  /\ doc \in [Documents -> {"readable", "hidden"}]
  /\ alive = TRUE
  /\ turn = [t \in Turns |-> NoTurn]
  /\ phase = [s \in Streams |-> "idle"]
  /\ mine = [s \in Streams |-> 0]
  /\ held = [s \in Streams |-> {}]
  /\ watched = [s \in Streams |-> {}]
  /\ expired = {}
  /\ deleting = FALSE
  /\ up = TRUE
  /\ crashes = 0

-----------------------------------------------------------------------------
Readable == {d \in Documents : doc[d] = "readable"}

\* A deleted source stays visible to an owner who could read it to the end.
Authorized == {d \in Documents : doc[d] \in {"readable", "kept"}}

\* v4_chat_history withholds a whole answer when one of its sources may not be seen.
Redacted(t) == ~(turn[t].sources \subseteq Authorized)

\* What ChatService.get shows of an answer.
Shown(t) == IF Redacted(t) THEN {} ELSE turn[t].text

Existing == {t \in Turns : turn[t].status # "none"}

Latest == Cardinality(Existing)

NoneGenerating == \A t \in Turns : turn[t].status # "generating"

SignedIn(s) == s \notin expired

\* Mutant: the turn is still being generated, whoever does it.
OwnsByStatus(s) == mine[s] \in Turns /\ turn[mine[s]].status = "generating"

Owns(s) ==
  /\ mine[s] \in Turns
  /\ turn[mine[s]].status = "generating"
  /\ turn[mine[s]].token = s

Go(s, p) == phase' = [phase EXCEPT ![s] = p]

\* The stream is over; its response still cleans up.
Close(s) ==
  /\ Go(s, "closing")
  /\ held' = [held EXCEPT ![s] = {}]
  /\ watched' = [watched EXCEPT ![s] = {}]
  /\ UNCHANGED mine

WithoutAnswer(row, status) == [row EXCEPT !.status = status, !.token = None, !.text = {}]

WithAnswer(row, status, text) == [row EXCEPT !.status = status, !.token = None, !.text = text]

\* A stale token changes nothing.
EndWithout(s, status) ==
  turn' = IF Owns(s) THEN [turn EXCEPT ![mine[s]] = WithoutAnswer(turn[mine[s]], status)]
                     ELSE turn

EndPartial(s, status) ==
  turn' = IF Owns(s)
            THEN [turn EXCEPT ![mine[s]] =
                   WithAnswer(turn[mine[s]], status, turn[mine[s]].text \cup held[s])]
            ELSE turn

FailTurn(s) == EndWithout(s, "failed")

InterruptTurn(s) == EndWithout(s, "interrupted")

\* It needs no session of the owner.
WithdrawTurn(s) == EndWithout(s, "access_revoked")

MarkLengthLimited(s) == EndPartial(s, "length_limited")

MarkCitationFailed(s) == EndPartial(s, "citation_failed")

\* v4_store_turn_sources refuses everything when one of the documents is not readable.
StoreSources(s, S) ==
  /\ Owns(s)
  /\ S \subseteq Readable
  /\ turn' = [turn EXCEPT ![mine[s]].sources = S]

\* v4_finalize_turn's own look at the sources.
SourcesAuthorized(s) == turn[mine[s]].sources \subseteq Authorized

FinalizeTurn(s, text) ==
  /\ Owns(s)
  /\ SourcesAuthorized(s)
  /\ turn' = [turn EXCEPT ![mine[s]] = WithAnswer(turn[mine[s]], "complete", text)]

-----------------------------------------------------------------------------
(* Begin and retry.                                                        *)

\* uq_chat_turns_one_generating refuses a second generation.
MayStart(s) == phase[s] = "idle" /\ up /\ alive /\ SignedIn(s) /\ NoneGenerating

Enter(s, t, over, D) ==
  /\ Go(s, IF over THEN "closing" ELSE "retrieving")
  /\ mine' = [mine EXCEPT ![s] = t]
  /\ held' = [held EXCEPT ![s] = IF over THEN {} ELSE D]
  /\ UNCHANGED watched

\* _resolve_scope: the owner may point the chat at any part of the library.
ScopeDocuments == SUBSET Readable

\* _begin_new: without documents the turn is finalized in the same transaction.
Begin(s) ==
  /\ MayStart(s)
  /\ Latest < MaxTurns
  /\ \E D \in ScopeDocuments :
      LET t == Latest + 1
      IN
        /\ turn' = [turn EXCEPT ![t] =
              IF D = {} THEN [NoTurn EXCEPT !.status = "complete"]
                        ELSE [NoTurn EXCEPT !.status = "generating", !.token = s]]
        /\ Enter(s, t, D = {}, D)
  /\ UNCHANGED <<chatVars, envVars>>

\* Mutant: any turn that was not answered may be tried again.
RetryableEvenRevoked(t) ==
  turn[t].status \in {"failed", "interrupted", "length_limited", "citation_failed",
                      "access_revoked"}

Retryable(t) ==
  turn[t].status \in {"failed", "interrupted", "length_limited", "citation_failed"}

\* Mutant: the sources go although the partial answer stays.
ReopenedWithoutSources(s, row) ==
  [status |-> "generating", token |-> s, sources |-> {},
   text |-> IF row.status = "length_limited" THEN row.text ELSE {}]

\* v4_retry_turn: a turn that hit its limit keeps its sources and partial answer.
Reopened(s, row) ==
  IF row.status = "length_limited"
    THEN [row EXCEPT !.status = "generating", !.token = s]
    ELSE [NoTurn EXCEPT !.status = "generating", !.token = s]

Continues(t) == turn[t].text # {}

\* _begin_retry.
Retry(s) ==
  /\ MayStart(s)
  /\ Latest \in Turns
  /\ Retryable(Latest)
  /\ \E D \in ScopeDocuments :
      LET row == Reopened(s, turn[Latest])
          over == D = {} /\ row.text = {}
      IN
        /\ turn' = [turn EXCEPT ![Latest] =
              IF over THEN WithoutAnswer(row, "complete") ELSE row]
        /\ Enter(s, Latest, over, D)
  /\ UNCHANGED <<chatVars, envVars>>

-----------------------------------------------------------------------------
(* The stream.                                                             *)

\* _snapshot_sources: what was retrieved and is still readable becomes the
\* turn's sources; nothing at all is an answer, too.
Snapshot(s) ==
  /\ phase[s] = "retrieving"
  /\ SignedIn(s)
  /\ Owns(s)
  /\ ~Continues(mine[s])
  /\ \E S \in SUBSET (held[s] \cap Readable) :
       /\ IF S = {} THEN FinalizeTurn(s, {}) ELSE StoreSources(s, S)
       /\ held' = [held EXCEPT ![s] = S]
       /\ watched' = [watched EXCEPT ![s] = S]
       /\ Go(s, IF S = {} THEN "closing" ELSE "generating")
  /\ UNCHANGED <<chatVars, mine, envVars>>

\* The continuation of a partial answer rests on the sources it had.
Continue(s) ==
  /\ phase[s] = "retrieving"
  /\ SignedIn(s)
  /\ Owns(s)
  /\ Continues(mine[s])
  /\ LET S == turn[mine[s]].sources
     IN /\ S # {} /\ S \subseteq Authorized
        /\ held' = [held EXCEPT ![s] = S]
        /\ watched' = [watched EXCEPT ![s] = S \cap Readable]
  /\ Go(s, "continuing")
  /\ UNCHANGED <<chatVars, turn, mine, envVars>>

\* v4_authorized_turn_sources is empty unless every source may be seen.
NothingToContinue(s) ==
  /\ phase[s] = "retrieving"
  /\ Owns(s)
  /\ Continues(mine[s])
  /\ ~(turn[mine[s]].sources # {} /\ turn[mine[s]].sources \subseteq Authorized)

WatchedReadable(s) == watched[s] \subseteq Readable

Working(s) == phase[s] \in {"generating", "continuing", "repairing"}

\* monitor(), which runs every second and in every wait, or a refused session.
Revoke(s) ==
  /\ phase[s] = "retrieving" \/ Working(s)
  /\ \/ ~SignedIn(s)
     \/ ~WatchedReadable(s)
     \/ NothingToContinue(s)
  /\ WithdrawTurn(s)
  /\ Close(s)
  /\ UNCHANGED <<chatVars, envVars>>

\* A first generation that reached its limit is continued once, without asking.
ContinueAutomatically(s) ==
  /\ phase[s] = "generating"
  /\ Go(s, "continuing")
  /\ UNCHANGED <<chatVars, turn, memoryVars, envVars>>

\* The continuation reached its limit, too.
StopAtLimit(s) ==
  /\ phase[s] = "continuing"
  /\ SignedIn(s)
  /\ MarkLengthLimited(s)
  /\ Close(s)
  /\ UNCHANGED <<chatVars, envVars>>

\* The answer does not cite its sources as it should and is written again.
RepairCitations(s) ==
  /\ phase[s] \in {"generating", "continuing"}
  /\ Go(s, "repairing")
  /\ UNCHANGED <<chatVars, turn, memoryVars, envVars>>

\* So does the repaired one: the first draft is kept.
GiveUpCitations(s) ==
  /\ phase[s] = "repairing"
  /\ SignedIn(s)
  /\ MarkCitationFailed(s)
  /\ Close(s)
  /\ UNCHANGED <<chatVars, envVars>>

\* complete(): monitor and v4_finalize_turn in one transaction.
Complete(s) ==
  /\ Working(s)
  /\ SignedIn(s)
  /\ WatchedReadable(s)
  /\ \E text \in {turn[mine[s]].text \cup held[s], {}} : FinalizeTurn(s, text)
  /\ Close(s)
  /\ UNCHANGED <<chatVars, envVars>>

\* Any other exception: a service is down, the chat or the token is gone.  While
\* the request retrieves, a refused transition leaves the turn as it is.
Fail(s) ==
  /\ phase[s] = "retrieving" \/ Working(s)
  /\ \/ SignedIn(s) /\ FailTurn(s)
     \/ ~SignedIn(s) /\ phase[s] = "retrieving" /\ UNCHANGED turn
  /\ Close(s)
  /\ UNCHANGED <<chatVars, envVars>>

\* The client went away, or a frame could not be sent.
Disconnect(s) ==
  /\ phase[s] = "retrieving" \/ Working(s)
  /\ Close(s)
  /\ UNCHANGED <<chatVars, turn, envVars>>

\* The stream, the route and the response each report the interruption, some of
\* them after the turn has ended, or has been retried.
Interrupt(s) ==
  /\ phase[s] = "closing"
  /\ \/ SignedIn(s) /\ InterruptTurn(s)
     \/ ~SignedIn(s) /\ WithdrawTurn(s)
  /\ UNCHANGED <<chatVars, phase, memoryVars, envVars>>

\* A session that has ended may keep the interruption from being recorded.
Leave(s) ==
  /\ phase[s] = "closing"
  /\ Owns(s) => ~SignedIn(s)
  /\ Go(s, "idle")
  /\ mine' = [mine EXCEPT ![s] = 0]
  /\ expired' = expired \ {s}
  /\ UNCHANGED <<chatVars, turn, held, watched, doc, up, crashes>>

-----------------------------------------------------------------------------
(* The owner deletes the chat: the check and the deletion are two          *)
(* statements, and a turn may begin in between.                            *)

DeleteCheck ==
  /\ up /\ alive /\ ~deleting
  /\ NoneGenerating
  /\ deleting' = TRUE
  /\ UNCHANGED <<alive, turn, phase, memoryVars, envVars>>

DeleteChat ==
  /\ deleting
  /\ deleting' = FALSE
  /\ alive' = FALSE
  /\ turn' = [t \in Turns |-> NoTurn]
  /\ UNCHANGED <<phase, memoryVars, envVars>>

-----------------------------------------------------------------------------
(* The rest of the world.                                                  *)

SetDoc(d, to) ==
  /\ doc' = [doc EXCEPT ![d] = to]
  /\ UNCHANGED <<chatVars, turn, phase, memoryVars, expired, up, crashes>>

Grant(d) == doc[d] = "hidden" /\ SetDoc(d, "readable")

Withhold(d) == doc[d] = "readable" /\ SetDoc(d, "hidden")

\* v4_admin_delete_document: owner_authorized_at_deletion.
DeleteDocument(d) ==
  \/ doc[d] = "readable" /\ SetDoc(d, "kept")
  \/ doc[d] = "hidden" /\ SetDoc(d, "lost")

Expire(s) ==
  /\ MayExpire
  /\ phase[s] # "idle" /\ SignedIn(s)
  /\ expired' = expired \cup {s}
  /\ UNCHANGED <<chatVars, turn, phase, memoryVars, doc, up, crashes>>

Crash ==
  /\ up
  /\ crashes < MaxCrashes
  /\ crashes' = crashes + 1
  /\ up' = FALSE
  /\ phase' = [s \in Streams |-> "idle"]
  /\ mine' = [s \in Streams |-> 0]
  /\ held' = [s \in Streams |-> {}]
  /\ watched' = [s \in Streams |-> {}]
  /\ expired' = {}
  /\ deleting' = FALSE
  /\ UNCHANGED <<alive, turn, doc>>

\* maintenance_cli repair-interrupted-turns --confirm-stopped.
Repair ==
  /\ ~up
  /\ turn' = [t \in Turns |-> IF turn[t].status = "generating"
                                THEN WithoutAnswer(turn[t], "interrupted") ELSE turn[t]]
  /\ UNCHANGED <<chatVars, phase, memoryVars, envVars>>

StartApi ==
  /\ ~up
  /\ up' = TRUE
  /\ UNCHANGED <<chatVars, turn, phase, memoryVars, doc, expired, crashes>>

-----------------------------------------------------------------------------
Next ==
  \/ \E s \in Streams :
       \/ Begin(s) \/ Retry(s) \/ Snapshot(s) \/ Continue(s) \/ Revoke(s) \/ Complete(s)
       \/ ContinueAutomatically(s) \/ StopAtLimit(s) \/ RepairCitations(s) \/ GiveUpCitations(s)
       \/ Fail(s) \/ Disconnect(s) \/ Interrupt(s) \/ Leave(s) \/ Expire(s)
  \/ DeleteCheck \/ DeleteChat
  \/ \E d \in Documents : Grant(d) \/ Withhold(d) \/ DeleteDocument(d)
  \/ Crash \/ Repair \/ StartApi

Spec == Init /\ [][Next]_vars

-----------------------------------------------------------------------------
(* Properties.                                                             *)

\* Whatever the owner is shown of an answer, final or partial, was written from
\* documents that he may see at this moment: the record of sources that the redaction
\* goes by keeps up with the text through any sequence of retries and continuations.
NothingHiddenIsShown == \A t \in Turns : Shown(t) \subseteq Authorized

\* A turn that is being generated is ended by the request that generates it: neither
\* the late reports of an earlier attempt at it nor anything else touches it, but the
\* repair of a stopped service and the deletion of the chat.
OthersNeverEndATurn ==
  [][\A t \in Turns :
       turn[t].status = "generating" /\ turn'[t] # turn[t] =>
         \/ phase'[turn[t].token] # phase[turn[t].token]
         \/ phase[turn[t].token] = "closing"
         \/ ~up
         \/ ~alive']_vars

-----------------------------------------------------------------------------
\* The abstract view of a turn.
StateOf(status) ==
  CASE status = "none" -> "none"
    [] status = "generating" -> "open"
    [] status = "complete" -> "answered"
    [] status = "access_revoked" -> "withdrawn"
    [] OTHER -> "paused"

States == [t \in Turns |-> StateOf(turn[t].status)]
Bases == [t \in Turns |-> turn[t].sources]

Abstract == INSTANCE ChatTurns WITH state <- States, basis <- Bases, allowed <- Authorized

\* The turns of a chat behave as ChatTurns promises: one open turn, the last; answers
\* only on sources that the owner may see at that moment; answers and withdrawals
\* are final.
ImplementsTurns == Abstract!Spec
=============================================================================
