----------------------------- MODULE CodexCalls -----------------------------
(***************************************************************************)
(* Calls to Codex and the credentials they are made with:                  *)
(* src/src/libs/token.rs, libs/provider_resolver.rs, libs/oauth/codex.rs,  *)
(* libs/credential_store.rs, libs/http.rs (send_with_retry) and            *)
(* services/codex/create_responses.rs.                                     *)
(*                                                                         *)
(* Credentials are a generation: access and refresh token of one answer.   *)
(* The token endpoint takes the newest refresh token only, and an exchange *)
(* makes a new generation.  One generation is in memory, one on disk, and  *)
(* one may be on its way from the endpoint to both.  A call makes sure that*)
(* there are credentials (setup_codex_token, without the guard), is sent,  *)
(* and on a 401 renews them (force_refresh_codex_token, under the guard)   *)
(* and is sent once more.  The refresh loop does the same on its deadline. *)
(*                                                                         *)
(* A step is what runs between two awaits, but for the three statics that  *)
(* the end of a setup touches one after the other.                         *)
(***************************************************************************)
EXTENDS Naturals, FiniteSets

CONSTANTS Requests,   \* calls; each comes again after a restart
          Loops,      \* the refresh loops that may be alive at once
          Nobody,     \* nobody holds the guard, no loop is registered
          MaxGen,     \* bound: generations, of which the last does not age
          MaxRetries, \* COPILOT_API_UPSTREAM_MAX_RETRIES
          MaxFaults   \* bound: failed renewals, writes and connections, cancellations, crashes

Parties == Requests \cup Loops

ASSUME CodexCallsAssumption ==
    /\ IsFiniteSet(Parties) /\ Requests \cap Loops = {} /\ Nobody \notin Parties
    /\ MaxGen \in Nat \ {0} /\ MaxRetries \in Nat /\ MaxFaults \in Nat

Gens == 1..MaxGen
NoGen == 0

VARIABLES
    newest,     \* the endpoint: the generation whose refresh token it takes
    age,        \* "fresh", "due" within the buffer of 60 s, or "expired"
    revoked,    \* access tokens the upstream refuses before they expire
    mem,        \* state.codex_*
    file,       \* the credential file
    writes,     \* generations that blocking tasks are writing to it
    guard,      \* who holds CODEX_REFRESH_GUARD.lock
    deadline,   \* CODEX_REFRESH_GUARD.deadline_ms: a minute before this one expires; NoGen is a backoff
    controller, \* CODEX_REFRESH: the registered loop
    aborted,    \* loops that have been aborted and not yet dropped
    pc,         \* where each party stands
    tok,        \* the generation each party works with
    got,        \* the generation the endpoint answered it
    left,       \* retries left
    faults,     \* history: failures so far
    lost,       \* history: the newest generation was lost on its way
    putBack,    \* history: since the start, older credentials replaced newer ones in memory
    served      \* history: how often the upstream worked on each call

upstream == <<newest, age, revoked>>
store == <<mem, file, writes>>
loopVars == <<deadline, controller, aborted>>
parties == <<pc, tok, got, left>>
history == <<faults, lost, putBack, served>>
vars == <<upstream, store, guard, loopVars, parties, history>>

Stages == {"new", "setup", "reading", "read", "renewing", "answering", "writing", "written",
           "failed", "spawning", "calling", "sent", "waiting", "renewed", "resent", "ended",
           "off", "starting", "polling"}

TypeOK ==
    /\ newest \in Gens
    /\ age \in [Gens -> {"fresh", "due", "expired"}]
    /\ revoked \subseteq Gens
    /\ {mem, file, deadline} \subseteq Gens \cup {NoGen}
    /\ writes \subseteq Gens
    /\ guard \in Parties \cup {Nobody}
    /\ controller \in Loops \cup {Nobody}
    /\ aborted \subseteq Loops
    /\ pc \in [Parties -> Stages]
    /\ tok \in [Parties -> Gens \cup {NoGen}]
    /\ got \in [Parties -> Gens \cup {NoGen}]
    /\ left \in [Requests -> 0..MaxRetries]
    /\ faults \in 0..MaxFaults
    /\ {lost, putBack} \subseteq BOOLEAN
    /\ served \in [Requests -> Nat]

AtRest == [p \in Parties |-> IF p \in Requests THEN "new" ELSE "off"]

Init ==
    /\ newest = 1
    /\ age = [g \in Gens |-> "fresh"]
    /\ revoked = {}
    /\ mem = NoGen /\ file \in {NoGen, 1} /\ writes = {}
    /\ guard = Nobody
    /\ deadline = NoGen /\ controller = Nobody /\ aborted = {}
    /\ pc = AtRest
    /\ tok = [p \in Parties |-> NoGen] /\ got = [p \in Parties |-> NoGen]
    /\ left = [r \in Requests |-> 0]
    /\ faults = 0 /\ lost = FALSE /\ putBack = FALSE
    /\ served = [r \in Requests |-> 0]

Goto(p, stage) == pc' = [pc EXCEPT ![p] = stage]
Work(p, g) == tok' = [tok EXCEPT ![p] = g]

\* The end of a piece of work: what the party remembers goes with it.
Leave(p, stage) ==
    /\ Goto(p, stage)
    /\ tok' = [tok EXCEPT ![p] = NoGen] /\ got' = [got EXCEPT ![p] = NoGen]
    /\ left' = IF p \in Requests THEN [left EXCEPT ![p] = 0] ELSE left

\* The party is dropped, or returns, with whatever it holds.
LetGo(p) == guard' = IF guard = p THEN Nobody ELSE guard

Fault == faults < MaxFaults /\ faults' = faults + 1

\* What p was answered and has not begun to write goes with p.
LoseAnswer(p) == lost' = (lost \/ pc[p] = "answering")

(***************************************************************************)
(* The renewal gives up.  A setup fails the call, a renewal for a 401 has  *)
(* the 401 forwarded; the loop stores a backoff, the guard given back.     *)
(***************************************************************************)
GiveUp(p) ==
    /\ LetGo(p)
    /\ Leave(p, IF p \in Requests THEN "ended" ELSE "polling")
    /\ deadline' = IF p \in Requests THEN deadline ELSE NoGen

-----------------------------------------------------------------------------
(* resolve_provider_config and setup_codex_token                           *)

Expired(g) == g = NoGen \/ age[g] = "expired"

\* is_codex_credentials_expired, a minute early; a backoff may end at any time.
Due(g) == g # NoGen => age[g] # "fresh"

Resolve(r) ==
    /\ pc[r] = "new"
    /\ Goto(r, IF Expired(mem) THEN "setup" ELSE "calling")
    /\ UNCHANGED <<upstream, store, guard, loopVars, tok, got, left, history>>

SetUp(r) ==
    /\ pc[r] = "setup"
    /\ Work(r, mem)
    /\ Goto(r, IF mem = NoGen THEN "reading"
               ELSE IF ~Due(mem) /\ controller # Nobody THEN "calling" ELSE "read")
    /\ UNCHANGED <<upstream, store, guard, loopVars, got, left, history>>

\* read_codex_credentials
ReadFile(r) ==
    /\ pc[r] = "reading"
    /\ Work(r, file)
    /\ Goto(r, IF file = NoGen THEN "ended" ELSE "read")
    /\ UNCHANGED <<upstream, store, guard, loopVars, got, left, history>>

RenewFirst(r) ==
    /\ pc[r] = "read" /\ Due(tok[r])
    /\ Goto(r, "renewing")
    /\ UNCHANGED <<upstream, store, guard, loopVars, tok, got, left, history>>

\* apply_codex_credentials, stop_codex_refresh_loop
Install(r) ==
    LET g == IF pc[r] = "read" THEN tok[r] ELSE got[r] IN
    /\ \/ pc[r] = "read" /\ ~Due(g)
       \/ pc[r] = "written" /\ guard # r
    /\ mem' = g /\ putBack' = (putBack \/ g < mem)
    /\ aborted' = IF controller = Nobody THEN aborted ELSE aborted \cup {controller}
    /\ controller' = Nobody
    /\ Leave(r, "spawning")
    /\ UNCHANGED <<upstream, file, writes, guard, deadline, faults, lost, served>>

SpawnLoop(r) ==
    /\ pc[r] = "spawning"
    /\ \E l \in Loops :
         /\ pc[l] = "off"
         /\ pc' = [pc EXCEPT ![r] = "calling", ![l] = "starting"]
         /\ controller' = l
    /\ UNCHANGED <<upstream, store, guard, deadline, aborted, tok, got, left, history>>

-----------------------------------------------------------------------------
(* force_refresh_codex_token; the exchange is the same without the guard   *)

\* The guard, and refresh_already_done; without credentials nothing is renewed.
Lock(p) ==
    /\ pc[p] = "waiting" /\ guard = Nobody
    /\ \/ /\ mem \notin {NoGen, tok[p]}
          /\ Leave(p, "renewed") /\ UNCHANGED <<guard, deadline>>
       \/ /\ mem = NoGen /\ GiveUp(p)
       \/ /\ mem = tok[p]
          /\ guard' = p /\ Goto(p, "renewing") /\ UNCHANGED <<deadline, tok, got, left>>
    /\ UNCHANGED <<upstream, store, controller, aborted, history>>

\* The endpoint has the request and answers it.  The last generation stands for
\* all later ones.
Exchange(p) ==
    /\ pc[p] = "renewing" /\ tok[p] = newest
    /\ newest' = IF newest < MaxGen THEN newest + 1 ELSE newest
    /\ got' = [got EXCEPT ![p] = newest']
    /\ Goto(p, "answering")
    /\ UNCHANGED <<age, revoked, store, guard, loopVars, tok, left, history>>

\* Mutant of Refused: the exchange is tried again until it succeeds.
RefusedAgain(p) ==
    /\ pc[p] = "renewing" /\ tok[p] # newest
    /\ UNCHANGED vars

\* A refresh token that was used before is refused.
Refused(p) ==
    /\ pc[p] = "renewing" /\ tok[p] # newest
    /\ GiveUp(p)
    /\ UNCHANGED <<upstream, store, controller, aborted, history>>

\* The endpoint is not reached; or its answer does not arrive or cannot be used.
ExchangeFails(p) ==
    /\ pc[p] \in {"renewing", "answering"}
    /\ Fault /\ LoseAnswer(p) /\ GiveUp(p)
    /\ UNCHANGED <<upstream, store, controller, aborted, putBack, served>>

\* Mutant of StartWrite: memory first, the disk afterwards.
ApplyFirst(p) ==
    /\ pc[p] = "answering"
    /\ mem' = got[p] /\ writes' = writes \cup {got[p]}
    /\ Goto(p, "writing")
    /\ UNCHANGED <<upstream, file, guard, loopVars, tok, got, left, history>>

\* persist_codex_credentials hands the file to a blocking task and waits.
StartWrite(p) ==
    /\ pc[p] = "answering"
    /\ writes' = writes \cup {got[p]}
    /\ Goto(p, "writing")
    /\ UNCHANGED <<upstream, mem, file, guard, loopVars, tok, got, left, history>>

\* write_protected_file_sync goes on when nobody waits for it any more.
WriteEnds(g, stage) ==
    /\ g \in writes
    /\ writes' = writes \ {g}
    /\ pc' = [p \in Parties |-> IF pc[p] = "writing" /\ got[p] = g THEN stage ELSE pc[p]]
    /\ UNCHANGED <<upstream, mem, guard, loopVars, tok, got, left, putBack, served>>

WriteDone(g) == WriteEnds(g, "written") /\ file' = g /\ UNCHANGED <<faults, lost>>

WriteFails(g) == WriteEnds(g, "failed") /\ Fault /\ lost' = TRUE /\ UNCHANGED file

PersistFails(p) ==
    /\ pc[p] = "failed" /\ GiveUp(p)
    /\ UNCHANGED <<upstream, store, controller, aborted, history>>

\* The end under the guard, with the deadline of the new credentials.
Renewed(p) ==
    /\ pc[p] = "written" /\ guard = p
    /\ mem' = got[p] /\ deadline' = got[p] /\ guard' = Nobody
    /\ Leave(p, "renewed")
    /\ UNCHANGED <<upstream, file, writes, controller, aborted, history>>

-----------------------------------------------------------------------------
(* forward_codex_responses_selected and send_codex_request                 *)

Accepted(g) == ~Expired(g) /\ g \notin revoked

Serve(r) == served' = [served EXCEPT ![r] = @ + 1]

\* The socket takes the request; if it gives up before it is sent, HTTP does.
UseSocket(r) ==
    /\ pc[r] = "calling" /\ Accepted(mem)
    /\ Serve(r) /\ Leave(r, "ended")
    /\ UNCHANGED <<upstream, store, guard, loopVars, faults, lost, putBack>>

\* The token is read once, for the headers and for what a 401 has replaced.
Send(r) ==
    /\ pc[r] \in {"calling", "renewed"}
    /\ IF mem = NoGen THEN Leave(r, "ended")
       ELSE /\ Work(r, mem)
            /\ left' = [left EXCEPT ![r] = MaxRetries]
            /\ Goto(r, IF pc[r] = "calling" THEN "sent" ELSE "resent")
            /\ UNCHANGED got
    /\ UNCHANGED <<upstream, store, guard, loopVars, history>>

OnTheWire(r) == pc[r] \in {"sent", "resent"}

\* An answer, or an error after the upstream had the request: none is sent again.
Answer(r) ==
    /\ OnTheWire(r) /\ Accepted(tok[r])
    /\ Serve(r) /\ Leave(r, "ended")
    /\ UNCHANGED <<upstream, store, guard, loopVars, faults, lost, putBack>>

\* Mutant of TransientError: the policy retries a gateway error.
RetryTransient(r) ==
    /\ OnTheWire(r) /\ Accepted(tok[r])
    /\ Serve(r)
    /\ IF left[r] > 0 THEN left' = [left EXCEPT ![r] = @ - 1] /\ UNCHANGED <<pc, tok, got>>
                      ELSE Leave(r, "ended")
    /\ UNCHANGED <<upstream, store, guard, loopVars, faults, lost, putBack>>

\* billable_generation: a gateway error may hide work that was done.
TransientError(r) ==
    /\ OnTheWire(r) /\ Accepted(tok[r])
    /\ Serve(r) /\ Leave(r, "ended")
    /\ UNCHANGED <<upstream, store, guard, loopVars, faults, lost, putBack>>

\* No connection, or a 429: the upstream has done nothing.
Retry(r) ==
    /\ OnTheWire(r) /\ Fault
    /\ IF left[r] > 0 THEN left' = [left EXCEPT ![r] = @ - 1] /\ UNCHANGED <<pc, tok, got>>
                      ELSE Leave(r, "ended")
    /\ UNCHANGED <<upstream, store, guard, loopVars, lost, putBack, served>>

Unauthorized(r) ==
    /\ OnTheWire(r) /\ ~Accepted(tok[r])
    /\ IF pc[r] = "sent" THEN Goto(r, "waiting") /\ UNCHANGED <<tok, got, left>> ELSE Leave(r, "ended")
    /\ UNCHANGED <<upstream, store, guard, loopVars, history>>

\* The client goes away while the call waits for something.
Cancel(r) ==
    /\ pc[r] \in {"reading", "renewing", "answering", "writing", "sent", "waiting", "resent"}
    /\ Fault /\ LoseAnswer(r)
    /\ Leave(r, "ended") /\ LetGo(r)
    /\ UNCHANGED <<upstream, store, loopVars, putBack, served>>

-----------------------------------------------------------------------------
(* run_codex_refresh_loop                                                  *)

LoopStarts(l) ==
    /\ pc[l] = "starting"
    /\ deadline' = mem
    /\ Goto(l, "polling")
    /\ UNCHANGED <<upstream, store, guard, controller, aborted, tok, got, left, history>>

LoopDue(l) ==
    /\ pc[l] = "polling" /\ l \notin aborted
    /\ Due(deadline)
    /\ Work(l, mem)
    /\ Goto(l, "waiting")
    /\ UNCHANGED <<upstream, store, guard, loopVars, got, left, history>>

LoopRenewed(l) ==
    /\ pc[l] = "renewed"
    /\ Leave(l, "polling")
    /\ UNCHANGED <<upstream, store, guard, loopVars, history>>

\* An aborted loop is dropped where it waits, with what it was answered.
LoopDropped(l) ==
    /\ l \in aborted
    /\ pc[l] \in {"starting", "polling", "waiting", "renewing", "answering", "writing"}
    /\ aborted' = aborted \ {l}
    /\ LoseAnswer(l)
    /\ Leave(l, "off") /\ LetGo(l)
    /\ UNCHANGED <<upstream, store, deadline, controller, faults, putBack, served>>

-----------------------------------------------------------------------------
(* Time, the upstream, and the end of the process                          *)

\* What is issued later expires later; the last one does not age.
Ages(g) ==
    /\ g <= newest /\ g < MaxGen
    /\ g > 1 => age[g - 1] = "expired"
    /\ age[g] # "expired"
    /\ age' = [age EXCEPT ![g] = IF @ = "fresh" THEN "due" ELSE "expired"]
    /\ UNCHANGED <<newest, revoked, store, guard, loopVars, parties, history>>

Revoke(g) ==
    /\ g <= newest /\ g < MaxGen /\ g \notin revoked
    /\ revoked' = revoked \cup {g}
    /\ UNCHANGED <<newest, age, store, guard, loopVars, parties, history>>

\* The file is replaced by a rename: a write is done or it never was.
Crash ==
    /\ Fault
    /\ file' \in {file} \cup writes
    /\ lost' = (lost \/ file' # newest)
    /\ mem' = NoGen /\ putBack' = FALSE /\ writes' = {} /\ guard' = Nobody
    /\ deadline' = NoGen /\ controller' = Nobody /\ aborted' = {}
    /\ pc' = AtRest
    /\ tok' = [p \in Parties |-> NoGen] /\ got' = [p \in Parties |-> NoGen]
    /\ left' = [r \in Requests |-> 0]
    /\ served' = [r \in Requests |-> 0]
    /\ UNCHANGED upstream

Refresh(p) ==
    \/ Lock(p) \/ Exchange(p) \/ Refused(p) \/ StartWrite(p) \/ PersistFails(p) \/ Renewed(p)

CallStep(r) ==
    \/ Resolve(r) \/ SetUp(r) \/ ReadFile(r) \/ RenewFirst(r) \/ Install(r) \/ SpawnLoop(r)
    \/ UseSocket(r) \/ Send(r) \/ Answer(r) \/ Unauthorized(r) \/ Refresh(r)

LoopStep(l) ==
    \/ LoopStarts(l) \/ LoopDue(l) \/ LoopRenewed(l) \/ LoopDropped(l) \/ Refresh(l)

Next ==
    \/ \E r \in Requests : CallStep(r) \/ TransientError(r) \/ Retry(r) \/ Cancel(r)
    \/ \E l \in Loops : LoopStep(l)
    \/ \E p \in Parties : ExchangeFails(p)
    \/ \E g \in Gens : WriteDone(g) \/ WriteFails(g) \/ Ages(g) \/ Revoke(g)
    \/ Crash

Spec == Init /\ [][Next]_vars

\* Tasks run, the upstream answers, blocking writes end, the guard is fair.
FairSpec ==
    /\ Spec
    /\ WF_vars(\E r \in Requests : CallStep(r))
    /\ \A r \in Requests : SF_vars(Lock(r))
    /\ \A l \in Loops : WF_vars(LoopStep(l))
    /\ WF_vars(\E g \in Gens : WriteDone(g))

-----------------------------------------------------------------------------
(* Properties                                                              *)

(***************************************************************************)
(* The only refresh token that still works is never lost but by an answer  *)
(* that did not arrive, a write that failed or a death before the write: it*)
(* is on disk, on its way there, or with the party that was answered.  And *)
(* nothing is used before it is saved: memory never is ahead of the disk,  *)
(* however setups, renewals and loops overlap.                             *)
(***************************************************************************)
NewestKept ==
    /\ TypeOK
    /\ ~lost => \/ newest \in {file} \cup writes \/ file = NoGen
                \/ \E p \in Parties : pc[p] = "answering" /\ got[p] = newest
    /\ mem <= file

(***************************************************************************)
(* The upstream works on a call at most once, whatever is tried: socket,   *)
(* retries, replay after a renewal ("replaying cannot drop a               *)
(* partially-streamed (already-billed) generation", token.rs:409-411).     *)
(***************************************************************************)
BilledOnce == \A r \in Requests : served[r] <= 1

(***************************************************************************)
(* Every call ends, and a restart heals: with the newest credentials on    *)
(* disk and nothing failing any more, calls are served again.  Of two that *)
(* find old credentials one may fail; and both, if a setup that was slow   *)
(* puts the credentials it has read back over renewed ones.                *)
(***************************************************************************)
Restarted == mem = NoGen /\ pc = AtRest /\ file = newest /\ faults = MaxFaults

CallsEnd ==
    /\ \A r \in Requests : pc[r] = "new" ~> pc[r] = "ended"
    /\ Restarted ~> \E r \in Requests : served[r] = 1 \/ putBack
=============================================================================
