---------------------------- MODULE SessionPool ----------------------------
(***************************************************************************)
(* The pool of Warwick sessions and the calls that use it.                 *)
(*                                                                         *)
(* A call takes an index from the queue of its tier, makes sure that the   *)
(* session is logged in, sends its request, may log the session in again   *)
(* when Warwick answers with the login page, and puts the index back.      *)
(* Logins and requests are two steps: the context of the call can be       *)
(* cancelled and the session can age or be kicked in between.  The age of  *)
(* a session matters as young (at most sessionMinValidAge), mid (at most   *)
(* sessionMaxValidAge) and old.  A session is used by one call at a time   *)
(* (SessionInOnePlace), so its mutex is never contended and left out.      *)
(***************************************************************************)
EXTENDS Naturals, Sequences, Functions, FiniteSets

CONSTANTS
  Caller,       \* calls, each with a context of its own
  Session,      \* indexes of p.sessions
  Tier,
  TierOf,       \* Session -> Tier
  MaxBackoff,   \* sessionBackoffMaxAttempts
  MaxLogins     \* bound on the logins of one session

ASSUME PoolAssumption ==
  /\ IsFiniteSet(Session) /\ Session \subseteq Nat \ {0}
  /\ Tier # {} /\ TierOf \in [Session -> Tier]
  /\ MaxBackoff \in Nat \ {0} /\ MaxLogins \in Nat \ {0}

VARIABLES
  available,  \* queue of indexes of each tier
  session,    \* pooledSession
  honoured,   \* sessions whose cookie Warwick accepts
  caller,     \* calls
  poisoned    \* history: a cancelled request has put its session into backoff

poolVars == <<available, session, honoured, caller, poisoned>>

Age == {"never", "young", "mid", "old"}
Kind == {"once", "retry", "fresh"}   \* one request; one retry; login first
Phase == {"idle", "wait", "ensure", "login", "fetch", "refresh", "relogin"}

PoolTypeOK ==
  /\ available \in [Tier -> Seq(Session)]
  /\ session \in [Session -> [age: Age, generation: 0..MaxLogins, backedOff: BOOLEAN,
                              backoffCount: 0..MaxBackoff]]
  /\ honoured \subseteq Session
  /\ caller \in [Caller -> [phase: Phase, kind: Kind, tier: Tier, index: Session \cup {0},
                            generation: 0..MaxLogins, attempt: 1..2, live: BOOLEAN]]
  /\ poisoned \in BOOLEAN

----------------------------------------------------------------------------
NewSession == [age |-> "never", generation |-> 0, backedOff |-> FALSE, backoffCount |-> 0]

Idle == [phase |-> "idle", kind |-> "once", tier |-> CHOOSE t \in Tier : TRUE, index |-> 0,
         generation |-> 0, attempt |-> 1, live |-> TRUE]

(* The indexes of a tier in some order *)
Listed(S) == CHOOSE q \in [1..Cardinality(S) -> S] : IsInjective(q)

(* NewSessionPool: nobody is logged in, all indexes are available *)
PoolInit ==
  /\ available = [t \in Tier |-> Listed({i \in Session : TierOf[i] = t})]
  /\ session = [i \in Session |-> NewSession]
  /\ honoured = {}
  /\ caller = [c \in Caller |-> Idle]
  /\ poisoned = FALSE

Of(c) == session[caller[c].index]
Fresh(s) == s.age \in {"young", "mid"}            \* a cookie, and outside the refresh buffer
isKickCandidate(s) == s.age \in {"young", "mid"}  \* logged in at most sessionMaxValidAge ago

(* A first backoff of a young session is a certain kick: the longest window *)
applyBackoff(s) ==
  LET next == IF s.backoffCount = 0 /\ s.age = "young" THEN MaxBackoff ELSE s.backoffCount + 1
  IN [s EXCEPT !.backedOff = TRUE, !.backoffCount = IF next > MaxBackoff THEN MaxBackoff ELSE next]

(* doLoginLocked and resetBackoff *)
LoggedIn(s) == [age |-> "young", generation |-> s.generation + 1, backedOff |-> FALSE,
                backoffCount |-> 0]

Returned(c) == [available EXCEPT ![caller[c].tier] = Append(@, caller[c].index)]

(* Variant: an error after the index was taken forgets to put it back *)
GivesBackNot(c) ==
  /\ UNCHANGED available
  /\ caller' = [caller EXCEPT ![c] = Idle]

(* The call ends with an error or a result, and the index goes back: the    *)
(* error paths of acquireIndex, the deferred Release of all others          *)
GivesBack(c) ==
  /\ available' = Returned(c)
  /\ caller' = [caller EXCEPT ![c] = Idle]

At(c, phase) == caller[c].phase = phase
To(c, phase) == caller' = [caller EXCEPT ![c].phase = phase]

----------------------------------------------------------------------------
(* AcquireWithTimeoutContext *)
Begin(c) ==
  /\ At(c, "idle")
  /\ \E k \in Kind, t \in Tier :
       caller' = [caller EXCEPT ![c] = [@ EXCEPT !.phase = "wait", !.kind = k, !.tier = t]]
  /\ UNCHANGED <<available, session, honoured, poisoned>>

Take(c) ==
  /\ At(c, "wait")
  /\ available[caller[c].tier] # <<>>
  /\ caller' = [caller EXCEPT ![c].phase = "ensure", ![c].index = Head(available[caller[c].tier])]
  /\ available' = [available EXCEPT ![caller[c].tier] = Tail(@)]
  /\ UNCHANGED <<session, honoured, poisoned>>

(* Variant: a wait has no limit *)
WaitsOn(c) ==
  /\ At(c, "wait") /\ ~caller[c].live
  /\ caller' = [caller EXCEPT ![c] = Idle]
  /\ UNCHANGED <<available, session, honoured, poisoned>>

(* The timer fires, or the context is done *)
WaitEnds(c) ==
  /\ At(c, "wait")
  /\ caller' = [caller EXCEPT ![c] = Idle]
  /\ UNCHANGED <<available, session, honoured, poisoned>>

Cancel(c) ==
  /\ ~At(c, "idle")
  /\ caller[c].live
  /\ caller' = [caller EXCEPT ![c].live = FALSE]
  /\ UNCHANGED <<available, session, honoured, poisoned>>

Fetching(c, gen, attempt) ==
  caller' = [caller EXCEPT ![c].phase = "fetch", ![c].generation = gen, ![c].attempt = attempt]

(* acquireIndex and the fast path of ensureValidSession *)
Ensure(c) ==
  /\ At(c, "ensure")
  /\ \/ /\ ~caller[c].live \/ (~Fresh(Of(c)) /\ Of(c).backedOff)
        /\ GivesBack(c)
     \/ /\ caller[c].live /\ Fresh(Of(c))
        /\ IF caller[c].kind = "fresh" THEN To(c, "refresh") ELSE Fetching(c, Of(c).generation, 1)
        /\ UNCHANGED available
     \/ /\ caller[c].live /\ ~Fresh(Of(c)) /\ ~Of(c).backedOff
        /\ To(c, "login")
        /\ UNCHANGED available
  /\ UNCHANGED <<session, honoured, poisoned>>

(* The login of ensureValidSession has succeeded; acquireIndex looks at the *)
(* context once more                                                        *)
LoginSucceeds(c) ==
  /\ At(c, "login")
  /\ Of(c).generation < MaxLogins
  /\ session' = [session EXCEPT ![caller[c].index] = LoggedIn(@)]
  /\ honoured' = honoured \cup {caller[c].index}
  /\ IF ~caller[c].live THEN GivesBack(c)
     ELSE /\ IF caller[c].kind = "fresh" THEN To(c, "refresh")
             ELSE Fetching(c, Of(c).generation + 1, 1)
          /\ UNCHANGED available
  /\ UNCHANGED poisoned

(* It has failed; a cancelled or timed out login is no evidence of a kick *)
LoginFails(c) ==
  /\ At(c, "login")
  /\ \E backoff \in {isKickCandidate(Of(c)), FALSE} :
       /\ caller[c].live \/ ~backoff
       /\ session' = IF backoff THEN [session EXCEPT ![caller[c].index] = applyBackoff(@)]
                     ELSE session
  /\ GivesBack(c)
  /\ UNCHANGED <<honoured, poisoned>>

----------------------------------------------------------------------------
(* A request with the cookie of the reference is answered *)
FetchEnds(c) ==
  /\ At(c, "fetch")
  /\ IF caller[c].live /\ caller[c].index \notin honoured
        /\ caller[c].kind = "retry" /\ caller[c].attempt = 1
       THEN To(c, "refresh") /\ UNCHANGED available
       ELSE GivesBack(c)
  /\ UNCHANGED <<session, honoured, poisoned>>

(* Warwick answers late that a request failed for another reason *)
FetchFails(c) ==
  /\ At(c, "fetch")
  /\ GivesBack(c)
  /\ UNCHANGED <<session, honoured, poisoned>>

(* ForceRefreshOnSessionContext up to the login *)
Refresh(c) ==
  /\ At(c, "refresh")
  /\ IF ~caller[c].live \/ Of(c).backedOff THEN GivesBack(c)
     ELSE To(c, "relogin") /\ UNCHANGED available
  /\ UNCHANGED <<session, honoured, poisoned>>

RefreshSucceeds(c) ==
  /\ At(c, "relogin")
  /\ Of(c).generation < MaxLogins
  /\ session' = [session EXCEPT ![caller[c].index] = LoggedIn(@)]
  /\ honoured' = honoured \cup {caller[c].index}
  /\ Fetching(c, Of(c).generation + 1, 2)
  /\ UNCHANGED <<available, poisoned>>

(* Any failure of the login counts, a cancelled one included *)
RefreshFails(c) ==
  /\ At(c, "relogin")
  /\ IF isKickCandidate(Of(c))
       THEN /\ session' = [session EXCEPT ![caller[c].index] = applyBackoff(@)]
            /\ poisoned' = (poisoned \/ ~caller[c].live)
       ELSE UNCHANGED <<session, poisoned>>
  /\ GivesBack(c)
  /\ UNCHANGED honoured

----------------------------------------------------------------------------
(* Time passes *)
Ages(i) ==
  /\ session[i].age \in {"young", "mid"}
  /\ session' = [session EXCEPT ![i].age = IF @ = "young" THEN "mid" ELSE "old"]
  /\ UNCHANGED <<available, honoured, caller, poisoned>>

BackoffEnds(i) ==
  /\ session[i].backedOff
  /\ session' = [session EXCEPT ![i].backedOff = FALSE]
  /\ UNCHANGED <<available, honoured, caller, poisoned>>

(* An administrator logs in, or Warwick forgets the session *)
Kicked(i) ==
  /\ i \in honoured
  /\ honoured' = honoured \ {i}
  /\ UNCHANGED <<available, session, caller, poisoned>>

Working(c) ==
  \/ Take(c) \/ WaitEnds(c) \/ Ensure(c) \/ LoginSucceeds(c) \/ LoginFails(c)
  \/ FetchEnds(c) \/ FetchFails(c) \/ Refresh(c) \/ RefreshSucceeds(c) \/ RefreshFails(c)

PoolNext ==
  \/ \E c \in Caller : Begin(c) \/ Cancel(c) \/ Working(c)
  \/ \E i \in Session : Ages(i) \/ BackoffEnds(i) \/ Kicked(i)

PoolSpec == PoolInit /\ [][PoolNext]_poolVars

(* Every wait, login and request has a timeout *)
FairPoolSpec == PoolSpec /\ \A c \in Caller : WF_poolVars(Working(c))

----------------------------------------------------------------------------

(* Capacity is neither lost nor duplicated: on every path through the error *)
(* returns of acquireIndex, the retries and the deferred Release a session  *)
(* is in the queue of its own tier once, or used by one call.               *)
SessionInOnePlace ==
  \A i \in Session :
    /\ Cardinality({p \in Tier \X (1..Cardinality(Session)) :
                      p[2] <= Len(available[p[1]]) /\ available[p[1]][p[2]] = i})
       + Cardinality({c \in Caller : caller[c].index = i}) = 1
    /\ \A t \in Tier : i \in Range(available[t]) => TierOf[i] = t

(* The cookie a request is sent with is the latest of its session: nobody   *)
(* refreshes a session that another call uses, and ForceRefreshOnSession    *)
(* stores the new cookie in the reference.                                  *)
ReferenceIsCurrent ==
  \A c \in Caller : At(c, "fetch") => caller[c].generation = Of(c).generation

(* A call is over at some time, served or not, though others may take every *)
(* session that is released before it.                                      *)
EveryCallEnds == \A c \in Caller : ~At(c, "idle") ~> At(c, "idle")

(* "Caller cancellation/deadline is not evidence of an admin kick. Do not   *)
(* poison the session's backoff state for a request-local failure."         *)
(* (ensureValidSession)                                                     *)
CancellationIsNoKick == ~poisoned
============================================================================
