----------------------------- MODULE HandleRace -----------------------------
(***************************************************************************)
(* wf_handle_resolve (src/identity/identity.c): a handle is looked up over  *)
(* DNS and over HTTPS at once, by two detached threads that share one       *)
(* reference-counted state with the caller.  Each caller makes one call and *)
(* may free its client once the call has returned.                          *)
(*                                                                          *)
(* A critical section is one step; so is what a thread does outside of one. *)
(***************************************************************************)
EXTENDS Integers, DidNames

CONSTANT Callers   \* threads that call wf_handle_resolve

Sides    == {"dns", "wk"}
Failures == {"not_found", "other"}

VARIABLES
  call,      \* where each caller is in its call
  refs,      \* state->refcount
  freed,     \* whether the state was freed
  thread,    \* where each of the two threads is: [Callers -> [Sides -> ...]]
  done,      \* state->dns_done and state->wk_done
  status,    \* state->dns_status and state->wk_status
  did,       \* state->dns_did and state->wk_did
  result,    \* what the call returns: a status and a DID
  client     \* whether the caller's client is alive

raceVars == <<call, refs, freed, thread, done, status, did, result, client>>

Pair(v)       == [s \in Sides |-> v]
Answers       == [status : {"ok"}, did : Dids] \cup [status : Failures, did : {NoDid}]
Nothing       == [status |-> "none", did |-> NoDid]

RaceInit ==
  /\ call   = [c \in Callers |-> "idle"]
  /\ refs   = [c \in Callers |-> 0]
  /\ freed  = [c \in Callers |-> FALSE]
  /\ thread = [c \in Callers |-> Pair("none")]
  /\ done   = [c \in Callers |-> Pair(FALSE)]
  /\ status = [c \in Callers |-> Pair("none")]
  /\ did    = [c \in Callers |-> Pair(NoDid)]
  /\ result = [c \in Callers |-> Nothing]
  /\ client = [c \in Callers |-> TRUE]

\* The state is allocated with the caller's own reference.
StartRace(c) ==
  /\ call[c] = "idle"
  /\ call' = [call EXCEPT ![c] = "launch_dns"]
  /\ refs' = [refs EXCEPT ![c] = 1]
  /\ UNCHANGED <<freed, thread, done, status, did, result, client>>

\* No memory for the state: one lookup after the other, in this thread.
StartSequential(c) ==
  /\ call[c] = "idle"
  /\ call' = [call EXCEPT ![c] = "returned"]
  /\ \E r \in Answers : result' = [result EXCEPT ![c] = r]
  /\ UNCHANGED <<refs, freed, thread, done, status, did, client>>

\* handle_race_launch, which is called for DNS first.
Launching(c, s) == call[c] = IF s = "dns" THEN "launch_dns" ELSE "launch_wk"
Launched(c, s)  == call' = [call EXCEPT ![c] = IF s = "dns" THEN "launch_wk" ELSE "wait"]

\* Mutant: the thread borrows the caller's reference.
LaunchUncounted(c, s) ==
  /\ Launching(c, s)
  /\ Launched(c, s)
  /\ thread' = [thread EXCEPT ![c][s] = "lookup"]
  /\ UNCHANGED <<refs, freed, done, status, did, result, client>>

Launch(c, s) ==
  /\ Launching(c, s)
  /\ Launched(c, s)
  /\ refs' = [refs EXCEPT ![c] = @ + 1]
  /\ thread' = [thread EXCEPT ![c][s] = "lookup"]
  /\ UNCHANGED <<freed, done, status, did, result, client>>

\* Mutant: a side that was never started is waited for.
LaunchFailsSilently(c, s) ==
  /\ Launching(c, s)
  /\ Launched(c, s)
  /\ status' = [status EXCEPT ![c][s] = "other"]
  /\ UNCHANGED <<refs, freed, thread, done, did, result, client>>

\* No memory for the task, or no thread: the side is done, and failed.
LaunchFails(c, s) ==
  /\ Launching(c, s)
  /\ Launched(c, s)
  /\ done' = [done EXCEPT ![c][s] = TRUE]
  /\ status' = [status EXCEPT ![c][s] = "other"]
  /\ UNCHANGED <<refs, freed, thread, did, result, client>>

\* handle_race_dns_thread and handle_race_wk_thread: the lookup, with the
\* report of its answer under the lock, and handle_race_state_release.
Lookup(c, s) ==
  /\ thread[c][s] = "lookup"
  /\ thread' = [thread EXCEPT ![c][s] = "release"]
  /\ done' = [done EXCEPT ![c][s] = TRUE]
  /\ \E r \in Answers : /\ status' = [status EXCEPT ![c][s] = r.status]
                        /\ did' = [did EXCEPT ![c][s] = r.did]
  /\ UNCHANGED <<call, refs, freed, result, client>>

\* The last of the three frees the state and what it holds.
Release(c) ==
  /\ refs' = [refs EXCEPT ![c] = @ - 1]
  /\ IF refs[c] = 1
     THEN /\ freed' = [freed EXCEPT ![c] = TRUE]
          /\ done' = [done EXCEPT ![c] = Pair(FALSE)]
          /\ status' = [status EXCEPT ![c] = Pair("none")]
          /\ did' = [did EXCEPT ![c] = Pair(NoDid)]
     ELSE UNCHANGED <<freed, done, status, did>>

ThreadRelease(c, s) ==
  /\ thread[c][s] = "release"
  /\ thread' = [thread EXCEPT ![c][s] = "gone"]
  /\ Release(c)
  /\ UNCHANGED <<call, result, client>>

\* The caller waits until both sides are done, and prefers DNS.  When there is
\* no memory for its copy of the DID, the status is WF_OK all the same.
Choice(c) ==
  IF status[c]["dns"] = "ok" THEN [status |-> "ok", did |-> did[c]["dns"]]
  ELSE IF status[c]["wk"] = "ok" THEN [status |-> "ok", did |-> did[c]["wk"]]
  ELSE [status |-> IF status[c]["dns"] # "not_found" THEN status[c]["dns"] ELSE status[c]["wk"],
        did |-> NoDid]

\* Mutant: the first side that is done ends the wait.
FirstDone(c) == \E s \in Sides : done[c][s]
AllDone(c) == \A s \in Sides : done[c][s]

Choose(c) ==
  /\ call[c] = "wait"
  /\ AllDone(c)
  /\ call' = [call EXCEPT ![c] = "release"]
  /\ \E d \in {Choice(c).did, NoDid} : result' = [result EXCEPT ![c] = [Choice(c) EXCEPT !.did = d]]
  /\ UNCHANGED <<refs, freed, thread, done, status, did, client>>

CallerRelease(c) ==
  /\ call[c] = "release"
  /\ call' = [call EXCEPT ![c] = "returned"]
  /\ Release(c)
  /\ UNCHANGED <<thread, result, client>>

\* The caller uses the answer and frees it, and is done with its client.
TakeResult(c) ==
  /\ call[c] = "returned"
  /\ result' = [result EXCEPT ![c] = Nothing]
  /\ UNCHANGED <<call, refs, freed, thread, done, status, did, client>>

FreeClient(c) ==
  /\ call[c] = "returned" /\ client[c]
  /\ client' = [client EXCEPT ![c] = FALSE]
  /\ UNCHANGED <<call, refs, freed, thread, done, status, did, result>>

ThreadStep(c, s) == Lookup(c, s) \/ ThreadRelease(c, s)
CallStep(c) == \/ StartRace(c) \/ StartSequential(c) \/ Choose(c) \/ CallerRelease(c)
               \/ \E s \in Sides : Launch(c, s) \/ LaunchFails(c, s)

RaceNext == \E c \in Callers :
              CallStep(c) \/ TakeResult(c) \/ FreeClient(c) \/ \E s \in Sides : ThreadStep(c, s)

-----------------------------------------------------------------------------
\* The shared state stays allocated as long as the caller or one of the two
\* threads may still touch it, and is freed once none does
\* (handle_race_state_release).
Touches(c) == {s \in Sides : thread[c][s] \in {"lookup", "release"}}
InCall(c)  == call[c] \in {"launch_dns", "launch_wk", "wait", "release"}
StateOwned ==
  \A c \in Callers : (InCall(c) \/ Touches(c) # {}) = (refs[c] > 0 /\ ~freed[c])

\* A thread never looks up with a client its owner has freed: the call does
\* not return before both have reported, the loser included.
ClientOutlivesLookups ==
  \A c \in Callers : ~client[c] => \A s \in Sides : thread[c][s] # "lookup"
=============================================================================
