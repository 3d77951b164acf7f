----------------------------- MODULE GameSession -----------------------------
(***************************************************************************)
(* The request table of one game connection (GameSession.cpp) on top of    *)
(* the transport.  Every accepted connection gets a new GameSession whose  *)
(* request IDs start at 1 again; the transport object stays.               *)
(***************************************************************************)
EXTENDS TcpLuaTransport

CONSTANT MaxOutstanding   \* MaximumOutstandingMemoryRequests

ASSUME SessionAssumption == MaxOutstanding \in Nat \ {0} /\ MaxOutstanding <= MaxId

VARIABLES
  session,    \* history: how many sessions there have been; the last is the current one
  sStopped,   \* m_Stopped of the current session (TRUE before the first one)
  nextId,     \* m_NextRequestId
  sPending,   \* m_Pending
  issued,     \* history: the number of tags given out
  owner,      \* history: owner[t] is the session that submitted t
  outcome,    \* history: outcome[t] is what t's completion was called with
  answeredBy, \* history: answeredBy[t] is the tag of the frame that completed t
  calls       \* history: calls[t] counts the calls of t's completion

sessionVars == <<session, sStopped, nextId, sPending, issued, owner, outcome, answeredBy, calls>>
historyVars == <<issued, owner, outcome, answeredBy, calls>>

SessionTypeOK ==
  /\ session \in Nat
  /\ sStopped \in BOOLEAN
  /\ nextId \in Ids
  /\ sPending \subseteq Requests
  /\ issued \in 0..MaxRequests
  /\ owner \in [Tags -> Nat]
  /\ outcome \in [Tags -> Statuses \cup {"none"}]
  /\ answeredBy \in [Tags -> Tags \cup {NoTag}]
  /\ calls \in [Tags -> Nat]

SessionInit ==
  /\ session = 0
  /\ sStopped = TRUE
  /\ nextId = 1
  /\ sPending = {}
  /\ issued = 0
  /\ owner = [t \in Tags |-> 0]
  /\ outcome = [t \in Tags |-> "none"]
  /\ answeredBy = [t \in Tags |-> NoTag]
  /\ calls = [t \in Tags |-> 0]

\* The constructor, for a new game connection.
NewSession ==
  /\ session' = session + 1
  /\ sStopped' = FALSE
  /\ nextId' = 1
  /\ sPending' = {}
  /\ UNCHANGED historyVars

-----------------------------------------------------------------------------
PendingIds == {p.id : p \in sPending}

\* Mutant: the ID wraps to 0.
IdAfterZero(k) == (nextId + k) % (MaxId + 1)

\* The ID after k increments of m_NextRequestId, which wraps past 0 to 1.
IdAfter(k) == IF nextId + k > MaxId THEN nextId + k - MaxId ELSE nextId + k

\* AllocateRequestId tries k + 1 IDs: the first k are pending, the last is not.
Allocates(k) ==
  /\ IdAfter(k) \notin PendingIds
  /\ \A j \in 0..(k - 1) : IdAfter(j) \in PendingIds

CanSubmit == ~sStopped /\ tState = "Connected" /\ Cardinality(sPending) < MaxOutstanding

\* Submit: `r` enters the session's table and the transport takes it.
SubmitAccepted ==
  /\ CanSubmit /\ issued < MaxRequests
  /\ \E k \in 0..(MaxOutstanding - 1), op \in Ops :
       /\ Allocates(k)
       /\ nextId' = IdAfter(k + 1)
       /\ LET r == [id |-> IdAfter(k), op |-> op, tag |-> issued + 1] IN
          /\ SubmitQueued(r) \/ SubmitOversize(r)
          /\ sPending' = sPending \cup {r}
          /\ issued' = r.tag
          /\ owner' = [owner EXCEPT ![r.tag] = session]
  /\ UNCHANGED <<session, sStopped, outcome, answeredBy, calls>>
  /\ UNCHANGED wireVars

\* Submit when the transport has no room (or the ID is in use there, which does
\* not happen): the request is forgotten again, its ID is not.
SubmitRefused ==
  /\ CanSubmit
  /\ \E k \in 0..(MaxOutstanding - 1) :
       /\ Allocates(k)
       /\ ~(CanSend /\ HasRoom(client, 1)) \/ \E p \in tPending : p.id = IdAfter(k)
       /\ nextId' = IdAfter(k + 1)
  /\ UNCHANGED <<session, sStopped, sPending, historyVars>>
  /\ UNCHANGED <<transportVars, wireVars>>

-----------------------------------------------------------------------------
\* The histories after the completion of every request in `reqs` is called.
Complete(reqs, status, by) ==
  LET hit(t) == \E r \in reqs : r.tag = t IN
  /\ outcome' = [t \in Tags |-> IF hit(t) THEN status ELSE outcome[t]]
  /\ answeredBy' = [t \in Tags |-> IF hit(t) THEN by ELSE answeredBy[t]]
  /\ calls' = [t \in Tags |-> IF hit(t) THEN calls[t] + 1 ELSE calls[t]]

\* Mutant: the table is cleared without calling the completions.
StopSilently ==
  /\ sStopped' = TRUE
  /\ sPending' = {}
  /\ UNCHANGED <<session, nextId, historyVars>>

\* Stop: every pending request completes with Disconnected.
StopSession ==
  /\ sStopped' = TRUE
  /\ sPending' = {}
  /\ Complete(sPending, "Disconnected", NoTag)
  /\ UNCHANGED <<session, nextId, issued, owner>>

\* Poll meets an Ok result `r`, looked up by request ID only.
CompleteOk(r, by) ==
  \E p \in sPending :
    /\ p.id = r.id
    /\ sPending' = sPending \ {p}
    /\ Complete({p}, "Ok", by)
    /\ UNCHANGED <<session, sStopped, nextId, issued, owner>>

\* Poll meets a result `r` with another status: its completion disconnects the
\* game connection, which stops the session and so completes the others.
CompleteFailed(r, status, by) ==
  \E p \in sPending :
    /\ p.id = r.id
    /\ outcome' = [t \in Tags |-> IF t = p.tag THEN status
                                  ELSE IF \E q \in sPending : q.tag = t THEN "Disconnected" ELSE outcome[t]]
    /\ answeredBy' = [answeredBy EXCEPT ![p.tag] = by]
    /\ calls' = [t \in Tags |-> IF \E q \in sPending : q.tag = t THEN calls[t] + 1 ELSE calls[t]]
    /\ sPending' = {}
    /\ sStopped' = TRUE
    /\ UNCHANGED <<session, nextId, issued, owner>>
=============================================================================
