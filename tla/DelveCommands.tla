--------------------------- MODULE DelveCommands ---------------------------
(***************************************************************************)
(* The delve front end of nvim-go, src/src/nvim-go/commands/delve.go.      *)
(*                                                                         *)
(* Every Dlv* command is registered as `go handler(v)`, so each command    *)
(* runs in a goroutine of its own; they share the package globals          *)
(* `server` (the supervised `dlv` command) and `delve` (the RPC client,   *)
(* its breakpoint registry `breakpoints` and its UI state).  A goroutine   *)
(* is a slot of G with a program counter; one step of a slot is the code   *)
(* between two RPC calls (or between an RPC call and a global write).      *)
(*                                                                         *)
(* The headless `dlv` server and its debuggee are the environment: procSt *)
(* is the life of each spawned server process, srv the state of the one   *)
(* that listens on the fixed address.  An unrecovered panic in any         *)
(* goroutine, or the log.Fatal of rpc2.NewClient, ends the plugin: crash.  *)
(* Of the panes parseThread writes, src keeps the source pane's name and   *)
(* the file whose text it shows.                                           *)
(***************************************************************************)
EXTENDS Integers, Sequences, FiniteSets, SequencesExt

CONSTANTS
    G,          \* goroutine slots running Dlv* handlers
    Procs,      \* dlv server processes that may be spawned, one per start
    Funcs,      \* function symbols a breakpoint may be set on
    MaxBpId,    \* bound on the server-assigned breakpoint ids
    MaxHits,    \* bound on a breakpoint's TotalHitCount
    Commands,   \* the Dlv* commands the user issues in a run
    TermOps,    \* delve terminal commands typed through DlvCommand
    ArgForms,   \* shapes of the DlvBreakpoint argument list
    NoProc,     \* a nil *exec.Cmd Process / a nil *rpc2.RPCClient
    SrcFiles,   \* source files a stopped thread may be in
    NoFile      \* the empty src.name before the first stop

ASSUME NoFile \notin SrcFiles
ASSUME NoProc \notin Procs /\ MaxBpId \in Nat /\ MaxHits \in Nat \ {0}
ASSUME Commands \subseteq {"StartServer", "StartClient", "Breakpoint",
                           "Continue", "Next", "Restart", "Detach", "Kill",
                           "Command", "FunctionList"}
ASSUME TermOps \subseteq {"break", "clear", "continue", "restart"}
ASSUME ArgForms \subseteq {"none", "fn", "nodot", "many"}

VARIABLES
    pc,          \* [G -> label]: where each handler goroutine is
    loc,         \* [G -> record]: the handler's locals
    serverSet,   \* the global `server` is non-nil
    serverProc,  \* server.Process: NoProc while not started
    delve,       \* the global `delve` *DelveClient (set = FALSE: nil)
    pane,        \* breakpoint ids of the last table written by a refresh
    procSt,      \* [Procs -> life of the process]
    srv,         \* state of the listening dlv server and its debuggee
    crash,       \* "none", or why the plugin process ended
    src          \* the source pane: src.name and the file its text is from

vars == <<pc, loc, serverSet, serverProc, delve, pane, procSt, srv, crash,
          src>>

PanicId == -1                      \* the default unrecovered-panic breakpoint
Ids     == {PanicId} \cup 1..MaxBpId
Counts  == 0..MaxHits
Entry   == [id : Ids, cnt : Counts]  \* a *api.Breakpoint as listed

NoLoc == [cmd |-> "none", id |-> PanicId, cnt |-> 0, snap |-> <<>>]

\* NewDelveClient (and the nil *DelveClient when set is FALSE): no client,
\* procPid 0, no buffers/terminal/signs (ui), breakpoints map nil.
NilDelve == [set |-> FALSE, client |-> NoProc, pid |-> FALSE, ui |-> FALSE,
             hasMap |-> FALSE, bps |-> <<>>]
NewDelveClient == [NilDelve EXCEPT !.set = TRUE]

\* A freshly listening `dlv exec` server: only the unrecovered-panic
\* breakpoint exists and the debuggee is stopped at its entry point.
FreshServer == [bps |-> (PanicId :> 0), loc |-> <<>>, next |-> 1,
                dbg |-> "stopped"]

Listening == {p \in Procs : procSt[p] = "listening"}
Live(p)   == p \in Listening

-----------------------------------------------------------------------------
(* Server-side effects of the RPC calls (the environment).                 *)

\* CreateBreakpoint on function f: a new id, never hit.
ServerCreate(f) ==
    [srv EXCEPT !.bps  = @ @@ (srv.next :> 0),
                !.loc  = @ @@ (srv.next :> f),
                !.next = @ + 1]

CanCreate(f) == f \notin Range(srv.loc) /\ srv.next <= MaxBpId

\* The debuggee stops at breakpoint b: its TotalHitCount grows.
Hit(b) == [srv EXCEPT !.bps[b] = @ + 1]
CanHit(b) == b \in DOMAIN srv.bps /\ srv.bps[b] < MaxHits

\* Restart re-creates the debuggee; breakpoints are kept, counts restart.
Restarted == [srv EXCEPT !.bps = [i \in DOMAIN @ |-> 0], !.dbg = "stopped"]

\* ClearBreakpoint(b) typed at the delve terminal.
Cleared(b) ==
    [srv EXCEPT !.bps = [i \in DOMAIN @ \ {b} |-> @[i]],
                !.loc = [i \in DOMAIN @ \ {b} |-> @[i]]]

\* ListBreakpoints answers in the server's map order: any order.
Listings == SetToSeqs({[id |-> i, cnt |-> srv.bps[i]] : i \in DOMAIN srv.bps})

-----------------------------------------------------------------------------
(* Breakpoint table helpers of the client.                                 *)

\* ByID.Less: a[i].ID < a[j].ID
ByIdLess(a, b) == a.id < b.id

\* sort.Sort(ByID(...)): for fewer than 12 elements Go's sort.Sort is an
\* insertion sort driven by Less.
RECURSIVE InsertById(_, _)
InsertById(e, s) ==
    IF s = <<>> \/ ~ByIdLess(Head(s), e) THEN <<e>> \o s
    ELSE <<Head(s)>> \o InsertById(e, Tail(s))

RECURSIVE SortById(_)
SortById(s) == IF s = <<>> THEN s ELSE InsertById(Head(s), SortById(Tail(s)))

\* Mutant: the refresh stores the listed count plus one.
ReconciledOffByOne(reg, s) ==
    [i \in DOMAIN reg |->
        IF \E k \in DOMAIN s : s[k].id = i /\ s[k].cnt # reg[i]
        THEN (CHOOSE e \in Range(s) : e.id = i).cnt + 1
        ELSE reg[i]]

\* The refresh loop: an entry is overwritten only when the listed
\* TotalHitCount differs from the cached one; otherwise the cached
\* descriptor is kept.
Reconciled(reg, s) ==
    [i \in DOMAIN reg |->
        IF \E k \in DOMAIN s : s[k].id = i /\ s[k].cnt # reg[i]
        THEN (CHOOSE e \in Range(s) : e.id = i).cnt
        ELSE reg[i]]

-----------------------------------------------------------------------------
(* Goroutine bookkeeping.                                                  *)

Running    == crash = "none"
Idle(g)    == pc[g] = "idle"
Goto(g, l) == pc' = [pc EXCEPT ![g] = l]
Finish(g)  == pc' = [pc EXCEPT ![g] = "idle"] /\ loc' = [loc EXCEPT ![g] = NoLoc]
Begin(g, c) == Running /\ Idle(g) /\ c \in Commands
Enter(g, c, l) == Goto(g, l) /\ loc' = [loc EXCEPT ![g].cmd = c]

\* An unrecovered panic (or log.Fatal) ends the plugin process.
Panic(why) ==
    /\ crash' = why
    /\ UNCHANGED <<pc, loc, serverSet, serverProc, delve, pane, procSt, srv,
                   src>>

\* A method called on the client of the current global `delve`.
NilClient == ~delve.set \/ delve.client = NoProc

-----------------------------------------------------------------------------
(* delveStartServer: LookPath, then `server = exec.Command("dlv", ...)`    *)
(* replaces the global handle with a command that has not started.         *)
StartServer(g) ==
    /\ Begin(g, "StartServer")
    /\ \/ /\ Finish(g)                        \* exec.LookPath failed
          /\ UNCHANGED <<serverSet, serverProc>>
       \/ /\ serverSet' = TRUE
          /\ serverProc' = NoProc
          /\ Enter(g, "StartServer", "ss_run")
    /\ UNCHANGED <<delve, pane, procSt, srv, crash>>

\* server.Run() on whatever command the global holds now.  Run blocks for
\* the server's lifetime and its result is dropped, so the goroutine has
\* no further effect once the process is spawned.
StartServerRun(g) ==
    /\ Running /\ pc[g] = "ss_run"
    /\ \/ /\ serverProc # NoProc              \* "exec: already started"
          /\ UNCHANGED <<serverProc, procSt>>
       \/ /\ serverProc = NoProc              \* dlv failed to start
          /\ UNCHANGED <<serverProc, procSt>>
       \/ \E p \in Procs :
            /\ serverProc = NoProc
            /\ procSt[p] = "unborn"
            /\ serverProc' = p
            /\ procSt' = [procSt EXCEPT ![p] = "starting"]
    /\ Finish(g)
    /\ UNCHANGED <<serverSet, delve, pane, srv, crash>>

\* The spawned dlv binds --listen=localhost:41222; when the port is taken
\* it exits at once.
Listen(p) ==
    /\ Running /\ procSt[p] = "starting"
    /\ \/ /\ Listening = {}
          /\ procSt' = [procSt EXCEPT ![p] = "listening"]
          /\ srv' = FreshServer
       \/ /\ Listening # {}
          /\ procSt' = [procSt EXCEPT ![p] = "dead"]
          /\ UNCHANGED srv
    /\ UNCHANGED <<pc, loc, serverSet, serverProc, delve, pane, crash>>

-----------------------------------------------------------------------------
(* delveStartClient                                                        *)

\* Guard on the server handle, then `delve = NewDelveClient(addr)`.
StartClient(g) ==
    /\ Begin(g, "StartClient")
    /\ \/ /\ ~serverSet                       \* "dlv headless server not running"
          /\ Finish(g)
          /\ UNCHANGED delve
       \/ /\ serverSet
          /\ delve' = NewDelveClient
          /\ Enter(g, "StartClient", "sc_dial")
    /\ UNCHANGED <<serverSet, serverProc, pane, procSt, srv, crash>>

\* rpc2.NewClient dials the address (log.Fatal when nobody listens), then
\* procPid, buffers, terminal, debugger, signs; a failing nvim pipeline
\* (p.Wait) ends the handler before the breakpoint map is made.
StartClientDial(g) ==
    /\ Running /\ pc[g] = "sc_dial"
    /\ \/ /\ Listening = {}
          /\ Panic("dial_fatal")
       \/ \E p \in Listening :
            /\ delve' = [delve EXCEPT !.client = p, !.pid = TRUE, !.ui = TRUE]
            /\ \/ Finish(g)
               \/ Goto(g, "sc_getpanic") /\ UNCHANGED loc
            /\ UNCHANGED <<serverSet, serverProc, pane, procSt, srv, crash>>

\* `delve.breakpoints = make(...)`, then GetBreakpoint(-1).
StartClientGetPanic(g) ==
    /\ Running /\ pc[g] = "sc_getpanic"
    /\ \/ /\ NilClient
          /\ Panic("nil_client")
       \/ /\ ~NilClient
          /\ delve' = [delve EXCEPT !.hasMap = TRUE, !.bps = <<>>]
          /\ \/ /\ Live(delve.client)
                /\ Goto(g, "sc_insert")
                /\ loc' = [loc EXCEPT ![g].cnt = srv.bps[PanicId]]
             \/ /\ ~Live(delve.client)        \* RPC error: echoed, return
                /\ Finish(g)
          /\ UNCHANGED <<serverSet, serverProc, pane, procSt, srv, crash>>

\* `delve.breakpoints[-1] = panic`, then the table is printed.
StartClientInsert(g) ==
    /\ Running /\ pc[g] = "sc_insert"
    /\ \/ /\ ~delve.hasMap
          /\ Panic("nil_map_write")
       \/ /\ delve.hasMap
          /\ delve' = [delve EXCEPT !.bps = (PanicId :> loc[g].cnt) @@ @]
          /\ Finish(g)
          /\ UNCHANGED <<serverSet, serverProc, pane, procSt, srv, crash>>

-----------------------------------------------------------------------------
(* delveBreakpoint                                                         *)

\* The argument list: none or more than two is an echoed error; one
\* argument without a '.' indexes bpslice[1] out of range; otherwise
\* CreateBreakpoint(FunctionName: args[0]).
Breakpoint(g) ==
    /\ Begin(g, "Breakpoint")
    /\ \E form \in ArgForms :
        \/ /\ form \in {"none", "many"}
           /\ Finish(g)
           /\ UNCHANGED <<serverSet, serverProc, delve, pane, procSt, srv, crash>>
        \/ /\ form = "nodot"
           /\ Panic("index_out_of_range")
        \/ /\ form = "fn"
           /\ NilClient
           /\ Panic("nil_client")
        \/ /\ form = "fn"
           /\ ~NilClient
           /\ \E f \in Funcs :
                \/ /\ ~Live(delve.client) \/ f \in Range(srv.loc)
                   /\ Finish(g)                \* RPC or "breakpoint exists"
                   /\ UNCHANGED srv
                \/ /\ Live(delve.client) /\ CanCreate(f)
                   /\ srv' = ServerCreate(f)
                   /\ Goto(g, "bp_register")
                   /\ loc' = [loc EXCEPT ![g].cmd = "Breakpoint", ![g].id = srv.next]
           /\ UNCHANGED <<serverSet, serverProc, delve, pane, procSt, crash>>

\* `delve.breakpoints[newbp.ID] = newbp` (a nil map panics), then the
\* sign and the table line.
BreakpointRegister(g) ==
    /\ Running /\ pc[g] = "bp_register"
    /\ \/ /\ ~delve.hasMap
          /\ Panic("nil_map_write")
       \/ /\ delve.hasMap
          /\ delve' = [delve EXCEPT !.bps = @ @@ (loc[g].id :> 0)]
          /\ Finish(g)
          /\ UNCHANGED <<serverSet, serverProc, pane, procSt, srv, crash>>

-----------------------------------------------------------------------------
(* delveContinue and delveNext                                             *)

\* `<-delve.client.Continue()`.  A dead connection or an exited debuggee
\* yields a state that carries Err but is not Exited, and the handler goes
\* on; an exit of the debuggee is echoed and ends the handler.
Continue(g) ==
    /\ Begin(g, "Continue")
    /\ \/ /\ NilClient
          /\ Panic("nil_client")
       \/ /\ ~NilClient
          /\ \/ /\ ~Live(delve.client)        \* ListBreakpoints fails next
                /\ Finish(g)
                /\ UNCHANGED srv
             \/ /\ Live(delve.client) /\ srv.dbg = "exited"
                /\ Enter(g, "Continue", "c_list")
                /\ UNCHANGED srv
             \/ /\ Live(delve.client) /\ srv.dbg = "stopped"
                /\ srv' = [srv EXCEPT !.dbg = "exited"]
                /\ Finish(g)
             \/ /\ Live(delve.client) /\ srv.dbg = "stopped"
                /\ \E b \in DOMAIN srv.bps : CanHit(b) /\ srv' = Hit(b)
                /\ Enter(g, "Continue", "c_list")
          /\ UNCHANGED <<serverSet, serverProc, delve, pane, procSt, crash>>

\* ListBreakpoints into the handler's snapshot, in the server's order.
ListInto(g, l) ==
    /\ \E s \in Listings : loc' = [loc EXCEPT ![g].snap = s]
    /\ Goto(g, l)

\* parseThread(v, state.CurrentThread) for a thread in file f: the log
\* line and its cursor (an error returns); for a file other than src.name,
\* `src.name = thread.File` before ioutil.ReadFile, so a failing read or
\* printBuffer returns with the old text under the new name; then the
\* signs, the pc sign and the source cursor (an error returns).  The
\* outcomes as <<src', parseThread returned nil>>.
ParseThread(f) ==
    LET named == [src EXCEPT !.name = f]
        read  == [name |-> f, text |-> f]
    IN {<<src, FALSE>>} \cup
       IF src.name = f THEN {<<src, TRUE>>}
       ELSE {<<named, FALSE>>, <<read, FALSE>>, <<read, TRUE>>}

\* parseThread, then ListBreakpoints.
ContinueList(g) ==
    /\ Running /\ pc[g] = "c_list"
    /\ \/ /\ NilClient
          /\ Panic("nil_client")
       \/ /\ ~NilClient
          /\ \E f \in SrcFiles : \E o \in ParseThread(f) :
                /\ src' = o[1]
                /\ IF o[2] /\ Live(delve.client)
                     THEN ListInto(g, "c_reconcile")
                     ELSE Finish(g)         \* parseThread or the RPC failed
          /\ UNCHANGED <<serverSet, serverProc, delve, pane, procSt, srv, crash>>

\* delve.client.Next(): an RPC error (also on an exited debuggee) returns;
\* an exit is echoed; otherwise the step lands, maybe on a breakpoint.
DelveNext(g) ==
    /\ Begin(g, "Next")
    /\ \/ /\ NilClient
          /\ Panic("nil_client")
       \/ /\ ~NilClient
          /\ \/ /\ ~Live(delve.client) \/ srv.dbg = "exited"
                /\ Finish(g)
                /\ UNCHANGED srv
             \/ /\ Live(delve.client) /\ srv.dbg = "stopped"
                /\ srv' = [srv EXCEPT !.dbg = "exited"]
                /\ Finish(g)
             \/ /\ Live(delve.client) /\ srv.dbg = "stopped"
                /\ Enter(g, "Next", "n_list")
                /\ UNCHANGED srv
             \/ /\ Live(delve.client) /\ srv.dbg = "stopped"
                /\ \E b \in DOMAIN srv.bps : CanHit(b) /\ srv' = Hit(b)
                /\ Enter(g, "Next", "n_list")
          /\ UNCHANGED <<serverSet, serverProc, delve, pane, procSt, crash>>

NextList(g) ==
    /\ Running /\ pc[g] = "n_list"
    /\ \/ /\ NilClient
          /\ Panic("nil_client")
       \/ /\ ~NilClient
          /\ \/ ~Live(delve.client) /\ Finish(g)
             \/ Live(delve.client) /\ ListInto(g, "n_reconcile")
          /\ UNCHANGED <<serverSet, serverProc, delve, pane, procSt, srv, crash>>

\* sort.Sort(ByID(breakpoint)), then for each listed bp
\* `delve.breakpoints[bp.ID].TotalHitCount`: an id missing from the map
\* is a nil pointer dereference.  The table is rewritten (not appended).
\* delveNext ends with parseThread, whose error is only returned.
Refresh(g) ==
    /\ Running /\ pc[g] \in {"c_reconcile", "n_reconcile"}
    /\ LET s == SortById(loc[g].snap) IN
        \/ /\ \E k \in DOMAIN s : s[k].id \notin DOMAIN delve.bps
           /\ Panic("nil_breakpoint")
        \/ /\ \A k \in DOMAIN s : s[k].id \in DOMAIN delve.bps
           /\ delve' = [delve EXCEPT !.bps = Reconciled(@, s)]
           /\ pane' = [k \in DOMAIN s |-> s[k].id]
           /\ Finish(g)
           /\ IF pc[g] = "n_reconcile"
                THEN \E f \in SrcFiles : \E o \in ParseThread(f) : src' = o[1]
                ELSE UNCHANGED src
           /\ UNCHANGED <<serverSet, serverProc, procSt, srv, crash>>

-----------------------------------------------------------------------------
(* delveRestart, delveDetach, delveKill                                    *)

Restart(g) ==
    /\ Begin(g, "Restart")
    /\ \/ /\ NilClient
          /\ Panic("nil_client")
       \/ /\ ~NilClient
          /\ \/ Live(delve.client) /\ srv' = Restarted
             \/ ~Live(delve.client) /\ UNCHANGED srv
          /\ Finish(g)
          /\ UNCHANGED <<serverSet, serverProc, delve, pane, procSt, crash>>

\* `defer delveKill()`; procPid 0 returns at once; a failing nvim pipeline
\* returns before the RPC; Detach(true) makes the server exit.  Every path
\* but a panic goes on to the deferred kill (k_kill).
Detach(g) ==
    /\ Begin(g, "Detach")
    /\ \/ /\ ~delve.set
          /\ Panic("nil_delve")
       \/ /\ delve.set
          /\ \/ UNCHANGED procSt                \* procPid == 0, or p.Wait failed
             \/ /\ delve.pid /\ Live(delve.client)
                /\ procSt' = [procSt EXCEPT ![delve.client] = "dead"]
          /\ Enter(g, "Detach", "k_kill")
          /\ UNCHANGED <<serverSet, serverProc, delve, pane, srv, crash>>

\* CmdDelveKill: `go delveKill()`.
Kill(g) ==
    /\ Begin(g, "Kill")
    /\ Enter(g, "Kill", "k_kill")
    /\ UNCHANGED <<serverSet, serverProc, delve, pane, procSt, srv, crash>>

\* delveKill: nothing when server is nil; server.Process.Kill() panics on a
\* nil Process and returns "process already finished" on a dead one.
KillServer(g) ==
    /\ Running /\ pc[g] = "k_kill"
    /\ \/ /\ serverSet /\ serverProc = NoProc
          /\ Panic("nil_process")
       \/ /\ ~serverSet \/ serverProc # NoProc
          /\ IF serverSet /\ procSt[serverProc] # "dead"
               THEN procSt' = [procSt EXCEPT ![serverProc] = "dead"]
               ELSE UNCHANGED procSt
          /\ Finish(g)
          /\ UNCHANGED <<serverSet, serverProc, delve, pane, srv, crash>>

-----------------------------------------------------------------------------
(* delveCommand and delveFunctionList                                      *)

\* One delve terminal command on the client's server.
TerminalOp(op) ==
    \/ /\ op = "break"
       /\ \E f \in Funcs : CanCreate(f) /\ srv' = ServerCreate(f)
    \/ /\ op = "clear"
       /\ \E b \in DOMAIN srv.bps \ {PanicId} : srv' = Cleared(b)
    \/ /\ op = "continue" /\ srv.dbg = "stopped"
       /\ \/ srv' = [srv EXCEPT !.dbg = "exited"]
          \/ \E b \in DOMAIN srv.bps : CanHit(b) /\ srv' = Hit(b)
    \/ /\ op = "restart"
       /\ srv' = Restarted

\* delve.debugger.Call(args[0], ...): the debugger is set with the client.
Command(g) ==
    /\ Begin(g, "Command")
    /\ \/ /\ NilClient
          /\ Panic("nil_debugger")
       \/ /\ ~NilClient
          /\ \/ UNCHANGED srv                   \* an error or a query
             \/ Live(delve.client) /\ \E op \in TermOps : TerminalOp(op)
          /\ Finish(g)
          /\ UNCHANGED <<serverSet, serverProc, delve, pane, procSt, crash>>

\* delveFunctionList only reads (ListFunctions; an error yields an empty
\* list), so with a client it is a stuttering step; a nil client panics.
FunctionList(g) ==
    /\ Begin(g, "FunctionList")
    /\ NilClient
    /\ Panic("nil_client")

-----------------------------------------------------------------------------
Init ==
    /\ pc = [g \in G |-> "idle"]
    /\ loc = [g \in G |-> NoLoc]
    /\ serverSet = FALSE
    /\ serverProc = NoProc
    /\ delve = NilDelve
    /\ pane = <<>>
    /\ procSt = [p \in Procs |-> "unborn"]
    /\ srv = FreshServer
    /\ crash = "none"
    /\ src = [name |-> NoFile, text |-> NoFile]

\* Only parseThread writes the source pane.
Next ==
    \/ \E g \in G : ContinueList(g) \/ Refresh(g)
    \/ /\ \/ \E g \in G :
             \/ StartServer(g) \/ StartServerRun(g)
             \/ StartClient(g) \/ StartClientDial(g)
             \/ StartClientGetPanic(g) \/ StartClientInsert(g)
             \/ Breakpoint(g) \/ BreakpointRegister(g) \/ Continue(g)
             \/ DelveNext(g) \/ NextList(g)
             \/ Restart(g) \/ Detach(g) \/ Kill(g) \/ KillServer(g)
             \/ Command(g) \/ FunctionList(g)
          \/ \E p \in Procs : Listen(p)
       /\ UNCHANGED src

Spec == Init /\ [][Next]_vars

-----------------------------------------------------------------------------
(* Properties                                                              *)

TypeOK ==
    /\ pc \in [G -> {"idle", "ss_run", "sc_dial", "sc_getpanic", "sc_insert",
                     "bp_register", "c_list", "n_list", "c_reconcile",
                     "n_reconcile", "k_kill"}]
    /\ \A g \in G : /\ loc[g].id \in Ids /\ loc[g].cnt \in Counts
                    /\ loc[g].snap \in Seq(Entry)
    /\ serverSet \in BOOLEAN /\ serverProc \in Procs \cup {NoProc}
    /\ delve.client \in Procs \cup {NoProc}
    /\ DOMAIN delve.bps \subseteq Ids /\ Range(delve.bps) \subseteq Counts
    /\ pane \in Seq(Ids)
    /\ procSt \in [Procs -> {"unborn", "starting", "listening", "dead"}]
    /\ DOMAIN srv.bps \subseteq Ids /\ Range(srv.bps) \subseteq Counts
    /\ src \in [name : SrcFiles \cup {NoFile}, text : SrcFiles \cup {NoFile}]

\* The refresh of delveContinue/delveNext (commands/delve.go:484) reads
\* delve.breakpoints[bp.ID] for every breakpoint the server lists: each of
\* them must already be in the registry when a refresh walks the list.
ReconcileFindsEveryId ==
    \A g \in G : pc[g] \in {"c_reconcile", "n_reconcile"} =>
        \A k \in DOMAIN loc[g].snap : loc[g].snap[k].id \in DOMAIN delve.bps

\* A cached TotalHitCount never decreases while the registry lives: the
\* refresh of delveContinue/delveNext never replaces a count by an older one.
HitCountsNeverRegress ==
    [][\A i \in DOMAIN delve.bps \cap DOMAIN delve'.bps :
          delve'.bps[i] >= delve.bps[i]]_delve

\* The globals seen through the supervisor interface of spec.md §4.1: the
\* handle is server.Process, the running servers are the spawned processes
\* not yet dead, and a kill has raised when delveKill panicked.
Sup == INSTANCE Supervisor WITH
           owned  <- serverProc,
           alive  <- {p \in Procs : procSt[p] \in {"starting", "listening"}},
           raised <- (crash = "nil_process")

\* DlvStartServer, DlvKill and DlvDetach implement the supervisor: a second
\* start never replaces the handle of a running server (commands/delve.go
\* assigns the global `server` unconditionally), a kill stops the process
\* the handle owns, and delveKill never panics.
SupSpec == Sup!Spec

=============================================================================
