---------------------------- MODULE StartupProbe ----------------------------
(***************************************************************************)
(* StartupProbe (app/module/startup_probe.go): Check starts one goroutine  *)
(* per host and URL; a goroutine that fails sends its error to errCh, and  *)
(* Check waits for all of them, closes the channel and returns the first   *)
(* error.  Name resolution and the HTTP answers are external.              *)
(***************************************************************************)
EXTENDS Integers, Sequences

VARIABLES
    hostURIs, urls, \* what AddHostURI and AddURL have collected
    reachable,      \* the hosts that resolve and the URLs that answer with 2xx
    probes,         \* the state of every goroutine
    errCh,          \* errors in the channel
    errChOpen,
    deadline        \* the 15 s of startupProbeTimeout have passed

probeVars == <<probes, errCh, errChOpen, deadline>>

targets == hostURIs \o urls

\* Mutant: an unbuffered channel, which nobody reads before Wait returns.
capacityNone == 0

\* Room for one error per goroutine.
capacity == Len(hostURIs) + Len(urls)

Check ==
    /\ probes' = [i \in 1 .. Len(targets) |-> "running"]
    /\ errCh' = 0 /\ errChOpen' = TRUE /\ deadline' = FALSE

\* resolveHost or checkHTTP returns nil.
probeSucceeds(i) ==
    /\ probes[i] = "running" /\ targets[i] \in reachable
    /\ probes' = [probes EXCEPT ![i] = "done"]
    /\ UNCHANGED <<errCh, errChOpen, deadline>>

\* It returns an error: of the network, or of the context that has ended.
probeFails(i) ==
    /\ probes[i] = "running" /\ (targets[i] \notin reachable \/ deadline)
    /\ probes' = [probes EXCEPT ![i] = "send"]
    /\ UNCHANGED <<errCh, errChOpen, deadline>>

\* errCh <- err and wg.Done.
sendErr(i) ==
    /\ probes[i] = "send" /\ errChOpen /\ errCh < capacity
    /\ probes' = [probes EXCEPT ![i] = "done"] /\ errCh' = errCh + 1
    /\ UNCHANGED <<errChOpen, deadline>>

deadlinePasses ==
    /\ ~deadline
    /\ deadline' = TRUE
    /\ UNCHANGED <<probes, errCh, errChOpen>>

\* Mutant: wg.Wait returns early, as when wg.Add is called by the goroutine.
waitedEarly == TRUE

waited == \A i \in DOMAIN probes : probes[i] = "done"

\* close(errCh).
closeErrCh ==
    /\ waited
    /\ errChOpen' = FALSE
    /\ UNCHANGED <<probes, errCh, deadline>>
=============================================================================
