---------------------------- MODULE DelveStruct ----------------------------
(***************************************************************************)
(* The *Delve front end of commands/delve/delve.go.  Every cmdX method     *)
(* runs its handler with `go d.x(...)`; a slot of G is such a goroutine.   *)
(* cont and next start three more goroutines for every stop (the context   *)
(* print, the pc sign, the cursor move) and return without joining them:   *)
(* those are the follow-up tasks of `tasks`.  The fields of *Delve are     *)
(* shared by all of them without a lock.                                   *)
(*                                                                         *)
(* Each RPC to the dlv server is one step; the server (the environment) is *)
(* `debuggee`, the number of breakpoints it made and the stops it reported.*)
(***************************************************************************)
EXTENDS Naturals, FiniteSets

CONSTANTS
    G,          \* goroutine slots running handlers
    ArgForms,   \* forms of the DlvBreak arguments
    MaxBp,      \* bound on the breakpoints the server creates
    MaxStops,   \* bound on the stops the server reports
    RpcErrors   \* whether an RPC may fail (a broken connection)

VARIABLES
    pc,        \* pc[g]: where handler g is
    loc,       \* loc[g]: its locals (the RPC reply, bpInfo == nil, bp.ID)
    client,    \* d.client: "nil" until setupDelve, then "ok"
    debuggee,  \* the target process: "ready" or "exited"
    nBps,      \* breakpoints 1..nBps exist on the server
    signMap,   \* d.bpSign != nil
    signs,     \* the keys of d.bpSign
    stops,     \* stops reported so far; stop k is the k-th
    tasks,     \* follow-up goroutines started and not yet finished
    shown,     \* shown[k]: the stop that follow-up kind k last displayed
    crash      \* "none", or the panic that ended the plugin

vars == <<pc, loc, client, debuggee, nBps, signMap, signs, stops, tasks,
          shown, crash>>

Kinds    == {"ctx", "pc", "cur"}
StopIds  == 0..MaxStops
Replies  == {"none", "stop", "exited", "err"}
NoLoc    == [reply |-> "none", stop |-> 0, bpNil |-> FALSE,
             sawNil |-> FALSE, bp |-> 0]

Idle(g)        == pc[g] = "idle"
Goto(g, l)     == pc' = [pc EXCEPT ![g] = l]
Panic(why)     == crash' = why
Alive          == crash = "none"

\* A method on a nil *rpc2.RPCClient dereferences it and panics.
NilClient      == client = "nil"

-----------------------------------------------------------------------------
(* The server's answer to a Continue or Next: a stop (Continue stops only  *)
(* at a breakpoint), the Exited state (delve turns a step of an exited     *)
(* process into one), or an RPC error.                                     *)
ServerStep(g, cmd) ==
    \/ /\ debuggee = "ready" /\ stops < MaxStops
       /\ cmd = "next" \/ nBps > 0
       /\ stops' = stops + 1
       /\ loc' = [loc EXCEPT ![g].reply = "stop", ![g].stop = stops + 1]
       /\ UNCHANGED debuggee
    \/ /\ debuggee' = "exited"
       /\ loc' = [loc EXCEPT ![g].reply = "exited"]
       /\ UNCHANGED stops
    \/ /\ RpcErrors
       /\ loc' = [loc EXCEPT ![g].reply = "err"]
       /\ UNCHANGED <<debuggee, stops>>

\* The three `go` statements of cont/next for a stop: ListGoroutines and
\* printContext, pcSign.Place, SetWindowCursor and "normal zz".
FanOut(k) == tasks' = tasks \cup {[kind |-> x, stop |-> k] : x \in Kinds}

-----------------------------------------------------------------------------
(* debug / connect: startServer's error is only reported; the deferred    *)
(* waitServer (not under src) runs setupDelve once the server is up, so    *)
(* the handler either ends with a client or, when the server never came    *)
(* up, without one.                                                        *)
Debug(g) ==
    /\ Idle(g)
    /\ \/ client' = "ok"
       \/ UNCHANGED client
    /\ UNCHANGED <<pc, loc, debuggee, nBps, signMap, signs, stops, tasks,
                   shown, crash>>

-----------------------------------------------------------------------------
(* cont: `state := <-d.client.Continue()`.                                 *)
ContCall(g) ==
    /\ Idle(g)
    /\ \/ /\ NilClient /\ Panic("nil_client")
          /\ UNCHANGED <<pc, loc, debuggee, stops>>
       \/ /\ ~NilClient
          /\ ServerStep(g, "continue")
          /\ Goto(g, "c_handle")
          /\ UNCHANGED crash
    /\ UNCHANGED <<client, nBps, signMap, signs, tasks, shown>>

\* Mutant: cont without its `state.Exited` check starts the follow-ups of
\* a state that has no stop.
ContHandleNoExitedCheck(g) ==
    /\ pc[g] = "c_handle"
    /\ \/ /\ loc[g].reply = "err" /\ Panic("nil_thread")
          /\ UNCHANGED tasks
       \/ /\ loc[g].reply \in {"stop", "exited"}
          /\ FanOut(loc[g].stop)
          /\ UNCHANGED crash
    /\ Goto(g, "idle")
    /\ loc' = [loc EXCEPT ![g] = NoLoc]
    /\ UNCHANGED <<client, debuggee, nBps, signMap, signs, stops, shown>>

\* The Exited check returns; an RPC error leaves Exited false and
\* CurrentThread nil, so `go d.pcSign.Place(v, cThread.ID, ...)` panics while
\* evaluating its arguments.  A stop starts the follow-ups and prints.
ContHandle(g) ==
    /\ pc[g] = "c_handle"
    /\ \/ /\ loc[g].reply = "exited"
          /\ UNCHANGED <<tasks, crash>>
       \/ /\ loc[g].reply = "err" /\ Panic("nil_thread")
          /\ UNCHANGED tasks
       \/ /\ loc[g].reply = "stop"
          /\ FanOut(loc[g].stop)
          /\ UNCHANGED crash
    /\ Goto(g, "idle")
    /\ loc' = [loc EXCEPT ![g] = NoLoc]
    /\ UNCHANGED <<client, debuggee, nBps, signMap, signs, stops, shown>>

-----------------------------------------------------------------------------
(* next: `state, err := d.client.Next()`.                                  *)
NextCall(g) ==
    /\ Idle(g)
    /\ \/ /\ NilClient /\ Panic("nil_client")
          /\ UNCHANGED <<pc, loc, debuggee, stops>>
       \/ /\ ~NilClient
          /\ ServerStep(g, "next")
          /\ Goto(g, "n_handle")
          /\ UNCHANGED crash
    /\ UNCHANGED <<client, nBps, signMap, signs, tasks, shown>>

\* An error returns.  There is no Exited check: an Exited state has a nil
\* CurrentThread, and the pcSign.Place arguments dereference it.
NextHandle(g) ==
    /\ pc[g] = "n_handle"
    /\ \/ /\ loc[g].reply = "err"
          /\ UNCHANGED <<tasks, crash>>
       \/ /\ loc[g].reply = "exited" /\ Panic("nil_thread")
          /\ UNCHANGED tasks
       \/ /\ loc[g].reply = "stop"
          /\ FanOut(loc[g].stop)
          /\ UNCHANGED crash
    /\ Goto(g, "idle")
    /\ loc' = [loc EXCEPT ![g] = NoLoc]
    /\ UNCHANGED <<client, debuggee, nBps, signMap, signs, stops, shown>>

-----------------------------------------------------------------------------
(* restart: Restart, then ProcessPid; the pid is only printed.             *)
Restart(g) ==
    /\ Idle(g)
    /\ \/ /\ NilClient /\ Panic("nil_client")
          /\ UNCHANGED debuggee
       \/ /\ ~NilClient
          /\ debuggee' = "ready"
          /\ UNCHANGED crash
       \/ /\ ~NilClient /\ RpcErrors
          /\ UNCHANGED <<debuggee, crash>>
    /\ UNCHANGED <<pc, loc, client, nBps, signMap, signs, stops, tasks,
                   shown>>

\* state and FunctionsCompletion only read; they matter when d.client is nil.
Query(g) ==
    /\ Idle(g) /\ NilClient
    /\ Panic("nil_client")
    /\ UNCHANGED <<pc, loc, client, debuggee, nBps, signMap, signs, stops,
                   tasks, shown>>
-----------------------------------------------------------------------------
(* breakpoint.  parseArgs by argument form: the cursor line (WindowCursor  *)
(* may fail), "pkg.Func", a name without a dot (splitargs[1] is out of     *)
(* range), "pkg." (splitargs[1][:1] of "" is out of range), or too many.   *)
(* Its error is reported but not returned, so bpInfo stays nil.  Then the  *)
(* `d.bpSign == nil` test, racing with the other goroutines' make.        *)
BpParse(g) ==
    /\ Idle(g)
    /\ \E a \in ArgForms :
         \/ /\ a \in {"cursor", "dotted", "cursor_err", "many"}
            /\ loc' = [loc EXCEPT ![g].bpNil = (a \in {"cursor_err", "many"}),
                                  ![g].sawNil = ~signMap]
            /\ Goto(g, "b_make")
            /\ UNCHANGED crash
         \/ /\ a \in {"nodot", "emptyname"}
            /\ Panic("index_range")
            /\ UNCHANGED <<pc, loc>>
    /\ UNCHANGED <<client, debuggee, nBps, signMap, signs, stops, tasks,
                   shown>>

\* `d.bpSign = make(map[int]*nvimutil.Sign)` when the test saw nil: it
\* replaces whatever map another goroutine made meanwhile.
BpMake(g) ==
    /\ pc[g] = "b_make"
    /\ IF loc[g].sawNil
         THEN signMap' = TRUE /\ signs' = {}
         ELSE UNCHANGED <<signMap, signs>>
    /\ Goto(g, "b_create")
    /\ UNCHANGED <<loc, client, debuggee, nBps, stops, tasks, shown, crash>>

\* CreateBreakpoint(bpInfo) copies *bpInfo into its request, so a nil
\* bpInfo panics; the server may reject the location.
BpCreate(g) ==
    /\ pc[g] = "b_create"
    /\ \/ /\ NilClient /\ Panic("nil_client")
          /\ UNCHANGED <<pc, loc, nBps>>
       \/ /\ ~NilClient /\ loc[g].bpNil /\ Panic("nil_bpinfo")
          /\ UNCHANGED <<pc, loc, nBps>>
       \/ /\ ~NilClient /\ ~loc[g].bpNil
          /\ Goto(g, "idle")
          /\ loc' = [loc EXCEPT ![g] = NoLoc]
          /\ UNCHANGED <<nBps, crash>>
       \/ /\ ~NilClient /\ ~loc[g].bpNil /\ nBps < MaxBp
          /\ nBps' = nBps + 1
          /\ loc' = [loc EXCEPT ![g].bp = nBps + 1]
          /\ Goto(g, "b_sign")
          /\ UNCHANGED crash
    /\ UNCHANGED <<client, debuggee, signMap, signs, stops, tasks, shown>>

\* `d.bpSign[bp.ID], err = nvimutil.NewSign(...)`: the key is stored even
\* when NewSign fails; then Place and printTerminal.  The write takes no
\* lock: while another goroutine writes the map too, Go's runtime may
\* detect it and abort the process ("concurrent map writes").
BpSign(g) ==
    /\ pc[g] = "b_sign"
    /\ \/ /\ signs' = signs \cup {loc[g].bp}
          /\ Goto(g, "idle")
          /\ loc' = [loc EXCEPT ![g] = NoLoc]
          /\ UNCHANGED crash
       \/ /\ \E h \in G \ {g} : pc[h] = "b_sign"
          /\ Panic("concurrent_map_writes")
          /\ UNCHANGED <<pc, loc, signs>>
    /\ UNCHANGED <<client, debuggee, nBps, signMap, stops, tasks, shown>>

-----------------------------------------------------------------------------
(* A follow-up goroutine of stop t.stop.  The context one lists the        *)
(* goroutines first and prints nothing when that RPC fails.                *)
FollowUp(t) ==
    /\ t \in tasks
    /\ tasks' = tasks \ {t}
    /\ \/ shown' = [shown EXCEPT ![t.kind] = t.stop]
       \/ /\ t.kind = "ctx" /\ RpcErrors
          /\ UNCHANGED shown
    /\ UNCHANGED <<pc, loc, client, debuggee, nBps, signMap, signs, stops,
                   crash>>

Tasks == [kind : Kinds, stop : 1..MaxStops]

-----------------------------------------------------------------------------
Init ==
    /\ pc = [g \in G |-> "idle"]
    /\ loc = [g \in G |-> NoLoc]
    /\ client = "nil"
    /\ debuggee = "ready"
    /\ nBps = 0
    /\ signMap = FALSE
    /\ signs = {}
    /\ stops = 0
    /\ tasks = {}
    /\ shown = [k \in Kinds |-> 0]
    /\ crash = "none"

Step(g) ==
    \/ Debug(g) \/ ContCall(g) \/ ContHandle(g) \/ NextCall(g)
    \/ NextHandle(g) \/ Restart(g) \/ Query(g) \/ BpParse(g)
    \/ BpMake(g) \/ BpCreate(g) \/ BpSign(g)

Next ==
    /\ Alive
    /\ \/ \E g \in G : Step(g)
       \/ \E t \in tasks : FollowUp(t)

Spec == Init /\ [][Next]_vars

-----------------------------------------------------------------------------
TypeOK ==
    /\ pc \in [G -> {"idle", "c_handle", "n_handle", "b_make", "b_create",
                     "b_sign"}]
    /\ loc \in [G -> [reply : Replies, stop : StopIds, bpNil : BOOLEAN,
                      sawNil : BOOLEAN, bp : 0..MaxBp]]
    /\ client \in {"nil", "ok"}
    /\ debuggee \in {"ready", "exited"}
    /\ nBps \in 0..MaxBp
    /\ signMap \in BOOLEAN
    /\ signs \subseteq 1..nBps
    /\ stops \in StopIds
    /\ tasks \subseteq Tasks
    /\ shown \in [Kinds -> StopIds]

\* Spec 4.4/5: the follow-ups of a stop finish before the next command
\* mutates the session.  cont/next never join their goroutines, so once
\* everything has finished, the pc sign and the cursor must still show the
\* last stop the server reported.
DisplayShowsLastStop ==
    (Alive /\ tasks = {} /\ \A g \in G : Idle(g))
        => \A k \in {"pc", "cur"} : shown[k] = stops

\* Spec §7: a spawn or connect failure, a rejected breakpoint, a failing
\* RPC and a step of an exited debuggee are errors returned to the command
\* layer; none of them ends the hosting process.  Every handler (debug,
\* cont, next, restart, state, breakpoint) and every follow-up goroutine
\* must leave the plugin alive.
ErrorsNeverEndPlugin == Alive
=============================================================================
