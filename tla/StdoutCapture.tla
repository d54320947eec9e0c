--------------------------- MODULE StdoutCapture ---------------------------
(***************************************************************************)
(* Capturing output by swapping the process-wide os.Stdout for an os.Pipe, *)
(* as done by delveCommand (src/src/nvim-go/commands/delve.go:288-322) and *)
(* Iferr (the GoIferr part of src/src/nvim-go/commands/delve/delve.go,     *)
(* lines 485-546).  Both are in package commands and both run as           *)
(* `go handler(...)`, so their swaps can overlap.                          *)
(*                                                                         *)
(* delveCommand runs a delve terminal command, which prints to whatever    *)
(* os.Stdout is at the moment of each print; Iferr writes the rewritten    *)
(* file to its own pipe end w with format.Node and replaces the current    *)
(* buffer with what it scans back.  A pipe holds at most Cap chunks; a     *)
(* write to a full pipe blocks until the reader drains it, and both        *)
(* handlers only read after they have written everything.  The read end r  *)
(* is never closed, so every call keeps at least one descriptor; os.Pipe's *)
(* error is dropped, so when the descriptors run out w and r are nil.      *)
(* delveCommand then appends what it read to the [delve] logs pane with    *)
(* printBuffer (delve.go:562-587): logs is that buffer's lines, linecount  *)
(* the global logs.linecount and cursor the logs window's cursor line.     *)
(***************************************************************************)
EXTENDS Integers, Sequences, FiniteSets

CONSTANTS
    G,          \* goroutine slots
    Kind,       \* [G -> {"dlvcmd", "iferr"}]: the handler a slot runs
    OutLens,    \* numbers of output chunks a call may produce
    CallFails,  \* outcomes of delve.debugger.Call: TRUE = returns an error
    Cap,        \* chunks an OS pipe buffers before a write blocks
    FdLimit,    \* descriptors the plugin may hold for pipes
    MaxCalls,   \* bound on the calls the user issues in a run
    Orig,       \* the original os.Stdout: the msgpack-RPC stream to Neovim
    NilFile,    \* the nil *os.File of a failed os.Pipe
    Blank,      \* the empty line of a buffer with no text
    Prompt      \* the "(dlv) " line that starts every logged output

ASSUME Kind \in [G -> {"dlvcmd", "iferr"}]
ASSUME OutLens \subseteq Nat \ {0} /\ CallFails \subseteq BOOLEAN /\ CallFails # {}
ASSUME Cap \in Nat \ {0} /\ FdLimit \in Nat /\ MaxCalls \in Nat

VARIABLES
    pc,       \* [G -> label]
    save,     \* [G -> file]: saveStdout / oldStdout
    mine,     \* [G -> pipe id or NilFile]: the call's r/w pair
    left,     \* [G -> Nat]: chunks the call has still to write
    want,     \* [G -> Nat]: chunks the call produced in all
    got,      \* [G -> Seq(G)]: what the call read back (who wrote each chunk)
    stdout,   \* os.Stdout: Orig, NilFile or a pipe id
    pipes,    \* Seq([buf : Seq(G), wclosed : BOOLEAN]): every pipe made
    calls,    \* calls issued so far (bounded by MaxCalls)
    start,    \* [G -> Nat]: printBuffer's start line
    logs,     \* Seq(line): the logs buffer
    linecount,\* logs.linecount
    cursor    \* the logs window's cursor line

vars == <<pc, save, mine, left, want, got, stdout, pipes, calls, start,
          logs, linecount, cursor>>
paneVars == <<start, logs, linecount, cursor>>

PipeIds == 1..Len(pipes)
File    == {Orig, NilFile} \cup PipeIds

\* Descriptors held: every read end (never closed) and every open write end.
FdsInUse == Len(pipes) + Cardinality({i \in PipeIds : ~pipes[i].wclosed})

\* os.Pipe(): a fresh pair, or nil files when two descriptors are not free.
NewPipe == [buf |-> <<>>, wclosed |-> FALSE]
MakePipe(g) ==
    \/ /\ FdsInUse + 2 <= FdLimit
       /\ pipes' = Append(pipes, NewPipe)
       /\ mine' = [mine EXCEPT ![g] = Len(pipes) + 1]
    \/ /\ FdsInUse + 2 > FdLimit
       /\ mine' = [mine EXCEPT ![g] = NilFile]
       /\ UNCHANGED pipes

Goto(g, l) == pc' = [pc EXCEPT ![g] = l]

\* Mutant: the write loop runs once past the end of the output.
WriteToOffByOne(g, f) ==
    /\ left[g] >= 0
    /\ left' = [left EXCEPT ![g] = @ - 1]
    /\ \/ /\ f \in {Orig, NilFile} \/ (f \in PipeIds /\ pipes[f].wclosed)
          /\ UNCHANGED pipes
       \/ /\ f \in PipeIds /\ ~pipes[f].wclosed
          /\ Len(pipes[f].buf) < Cap
          /\ pipes' = [pipes EXCEPT ![f].buf = Append(@, g)]

-----------------------------------------------------------------------------
(* One chunk written by g to file f (the loop of prints inside Call, or    *)
(* format.Node).  A write to nil or to a closed w fails and is dropped; a   *)
(* write to a full pipe is not enabled: the goroutine blocks.              *)
WriteTo(g, f) ==
    /\ left[g] > 0
    /\ left' = [left EXCEPT ![g] = @ - 1]
    /\ \/ /\ f \in {Orig, NilFile} \/ (f \in PipeIds /\ pipes[f].wclosed)
          /\ UNCHANGED pipes
       \/ /\ f \in PipeIds /\ ~pipes[f].wclosed
          /\ Len(pipes[f].buf) < Cap
          /\ pipes' = [pipes EXCEPT ![f].buf = Append(@, g)]

\* ioutil.ReadAll(r) / the bufio.Scanner loop: returns at EOF, i.e. once w
\* is closed, with everything buffered; on a nil r it reads nothing.
ReadBack(g) ==
    \/ /\ mine[g] = NilFile
       /\ got' = [got EXCEPT ![g] = <<>>]
       /\ UNCHANGED pipes
    \/ /\ mine[g] \in PipeIds /\ pipes[mine[g]].wclosed
       /\ got' = [got EXCEPT ![g] = pipes[mine[g]].buf]
       /\ pipes' = [pipes EXCEPT ![mine[g]].buf = <<>>]

\* w.Close(); closing a nil *os.File only returns an error.
CloseW(g) ==
    IF mine[g] \in PipeIds
    THEN pipes' = [pipes EXCEPT ![mine[g]].wclosed = TRUE]
    ELSE UNCHANGED pipes

-----------------------------------------------------------------------------
(* delveCommand                                                            *)

\* r, w, _ := os.Pipe(); saveStdout := os.Stdout
DlvCmdStart(g) ==
    /\ Kind[g] = "dlvcmd" /\ pc[g] = "idle" /\ calls < MaxCalls
    /\ MakePipe(g)
    /\ save' = [save EXCEPT ![g] = stdout]
    /\ \E n \in OutLens : left' = [left EXCEPT ![g] = n] /\ want' = [want EXCEPT ![g] = n]
    /\ got' = [got EXCEPT ![g] = <<>>]
    /\ Goto(g, "d_swap")
    /\ calls' = calls + 1
    /\ UNCHANGED <<stdout>>

\* os.Stdout = w
DlvCmdSwap(g) ==
    /\ pc[g] = "d_swap"
    /\ stdout' = mine[g]
    /\ Goto(g, "d_call")
    /\ UNCHANGED <<save, mine, left, want, got, pipes, calls>>

\* delve.debugger.Call prints each chunk to the current os.Stdout; when it
\* is done an error returns at once, leaving os.Stdout = w and w open.
DlvCmdCall(g) ==
    /\ pc[g] = "d_call"
    /\ \/ /\ WriteTo(g, stdout)
          /\ UNCHANGED <<pc, save, mine, want, got, stdout, calls>>
       \/ /\ left[g] = 0
          /\ \E fails \in CallFails : Goto(g, IF fails THEN "idle" ELSE "d_close")
          /\ UNCHANGED <<save, mine, left, want, got, stdout, pipes, calls>>

\* w.Close()
DlvCmdClose(g) ==
    /\ pc[g] = "d_close"
    /\ CloseW(g)
    /\ Goto(g, "d_restore")
    /\ UNCHANGED <<save, mine, left, want, got, stdout, calls>>

\* os.Stdout = saveStdout
DlvCmdRestore(g) ==
    /\ pc[g] = "d_restore"
    /\ stdout' = save[g]
    /\ Goto(g, "d_read")
    /\ UNCHANGED <<save, mine, left, want, got, pipes, calls>>

\* out := "(dlv) " + ioutil.ReadAll(r).  ReadAll of a nil r fails and the
\* handler returns before the logs pane is written.
DlvCmdRead(g) ==
    /\ pc[g] = "d_read"
    /\ ReadBack(g)
    /\ Goto(g, IF mine[g] = NilFile THEN "idle" ELSE "d_count")
    /\ UNCHANGED <<save, mine, left, want, stdout, calls>>

\* bytes.Split(bytes.TrimSpace(out), "\n"): each chunk read is a line; the
\* first one is printed after the prompt, and with no output the prompt is
\* the only line.
OutLines(s) == <<Prompt>> \o (IF s = <<>> THEN <<>> ELSE Tail(s))

\* printBuffer(v, logs.buffer, true, ...): start is BufferLineCount, but a
\* buffer whose single line is empty counts as empty.
PrintStart(pane) ==
    IF Len(pane) = 1 /\ pane[1] = Blank THEN 0 ELSE Len(pane)

\* BufferLineCount and BufferLines: the line count, and for a one-line
\* buffer its text.  Either RPC may fail: printBuffer returns the error,
\* and delveCommand with it.
DlvCmdCount(g) ==
    /\ pc[g] = "d_count"
    /\ \/ /\ start' = [start EXCEPT ![g] = PrintStart(logs)]
          /\ Goto(g, "d_write")
       \/ /\ Goto(g, "idle")
          /\ UNCHANGED start
    /\ UNCHANGED <<save, mine, left, want, got, stdout, pipes, calls, logs,
                   linecount, cursor>>

\* SetBufferLines(b, start, -1, true, data) between the two modifiable
\* toggles replaces the lines from start on; printBuffer returns
\* start + len(data) with its error, and `logs.linecount, err = ...`
\* stores the count even when the write failed.  After a write that
\* succeeded, SetWindowCursor(logs.window, [linecount, 0]), which may fail.
DlvCmdWrite(g) ==
    /\ pc[g] = "d_write"
    /\ LET data == OutLines(got[g]) IN
         /\ linecount' = start[g] + Len(data)
         /\ \/ /\ logs' = SubSeq(logs, 1, start[g]) \o data
               /\ \/ cursor' = start[g] + Len(data)
                  \/ UNCHANGED cursor
            \/ UNCHANGED <<logs, cursor>>
    /\ Goto(g, "idle")
    /\ UNCHANGED <<save, mine, left, want, got, stdout, pipes, calls, start>>

-----------------------------------------------------------------------------
(* Iferr                                                                   *)

\* oldStdout := os.Stdout; r, w, _ := os.Pipe()
IferrStart(g) ==
    /\ Kind[g] = "iferr" /\ pc[g] = "idle" /\ calls < MaxCalls
    /\ save' = [save EXCEPT ![g] = stdout]
    /\ MakePipe(g)
    /\ \E n \in OutLens : left' = [left EXCEPT ![g] = n] /\ want' = [want EXCEPT ![g] = n]
    /\ got' = [got EXCEPT ![g] = <<>>]
    /\ Goto(g, "i_swap")
    /\ calls' = calls + 1
    /\ UNCHANGED <<stdout>>

\* os.Stdout = w
IferrSwap(g) ==
    /\ pc[g] = "i_swap"
    /\ stdout' = mine[g]
    /\ Goto(g, "i_write")
    /\ UNCHANGED <<save, mine, left, want, got, pipes, calls>>

\* format.Node(w, ...) for every file of the package.
IferrWrite(g) ==
    /\ pc[g] = "i_write"
    /\ \/ /\ WriteTo(g, mine[g])
          /\ UNCHANGED <<pc, save, mine, want, got, stdout, calls>>
       \/ /\ left[g] = 0
          /\ Goto(g, "i_close")
          /\ UNCHANGED <<save, mine, left, want, got, stdout, pipes, calls>>

\* w.Close()
IferrClose(g) ==
    /\ pc[g] = "i_close"
    /\ CloseW(g)
    /\ Goto(g, "i_restore")
    /\ UNCHANGED <<save, mine, left, want, got, stdout, calls>>

\* os.Stdout = oldStdout
IferrRestore(g) ==
    /\ pc[g] = "i_restore"
    /\ stdout' = save[g]
    /\ Goto(g, "i_scan")
    /\ UNCHANGED <<save, mine, left, want, got, pipes, calls>>

\* The scanner loop, then SetBufferLines(b, 0, -1, false, out) replaces
\* the whole buffer with what was scanned.
IferrScan(g) ==
    /\ pc[g] = "i_scan"
    /\ ReadBack(g)
    /\ Goto(g, "idle")
    /\ UNCHANGED <<save, mine, left, want, stdout, calls>>

-----------------------------------------------------------------------------
Init ==
    /\ pc = [g \in G |-> "idle"]
    /\ save = [g \in G |-> Orig]
    /\ mine = [g \in G |-> NilFile]
    /\ left = [g \in G |-> 0]
    /\ want = [g \in G |-> 0]
    /\ got = [g \in G |-> <<>>]
    /\ stdout = Orig
    /\ pipes = <<>>
    /\ calls = 0
    /\ start = [g \in G |-> 0]
    /\ logs = <<Blank>>         \* newBuffer made the pane: one empty line
    /\ linecount = 0 /\ cursor = 1

\* The steps of a call in progress (not the user issuing a new one).
Step(g) ==
    \/ /\ \/ DlvCmdSwap(g) \/ DlvCmdCall(g) \/ DlvCmdClose(g)
          \/ DlvCmdRestore(g) \/ DlvCmdRead(g)
          \/ IferrSwap(g) \/ IferrWrite(g) \/ IferrClose(g)
          \/ IferrRestore(g) \/ IferrScan(g)
       /\ UNCHANGED paneVars
    \/ DlvCmdCount(g) \/ DlvCmdWrite(g)

Next ==
    \E g \in G :
        \/ (DlvCmdStart(g) \/ IferrStart(g)) /\ UNCHANGED paneVars
        \/ Step(g)

Spec == Init /\ [][Next]_vars

-----------------------------------------------------------------------------
(* Properties                                                              *)

TypeOK ==
    /\ pc \in [G -> {"idle", "d_swap", "d_call", "d_close", "d_restore",
                     "d_read", "d_count", "d_write", "i_swap", "i_write", "i_close", "i_restore",
                     "i_scan"}]
    /\ save \in [G -> File] /\ mine \in [G -> File \ {Orig}]
    /\ stdout \in File
    /\ \A i \in PipeIds : Len(pipes[i].buf) <= Cap
    /\ left \in [G -> Nat] /\ \A g \in G : left[g] <= want[g] /\ Len(got[g]) <= Cap
    /\ start \in [G -> Nat] /\ linecount \in Nat /\ cursor \in 1..Len(logs)
    /\ logs \in Seq({Blank, Prompt} \cup G)

\* Once no delveCommand or Iferr call is in progress, os.Stdout is the
\* original stdout again (each call restores what it saved).
StdoutRestored ==
    (\A g \in G : pc[g] = "idle") => stdout = Orig

\* When Iferr finishes, what it scanned back, and so what replaced the
\* user's buffer, is exactly its own formatted source: every chunk it
\* wrote and nothing written by another goroutine.
IferrBufferIsItsSource ==
    \A g \in G :
        (Kind[g] = "iferr" /\ pc[g] = "idle" /\ want[g] > 0)
            => got[g] = [i \in 1..want[g] |-> g]
=============================================================================
