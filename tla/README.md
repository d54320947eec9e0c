# TLA+ models of nvim-go's delve front end and GoGuru

These are TLA+ models of the concurrent parts of nvim-go (the sources under `src/`), checked with TLC.
The core of the plugin is the debugger session in `src/src/nvim-go/commands/delve.go`.
It starts a headless `dlv` server, connects a JSON-RPC client to it, and keeps a breakpoint registry in step with the server.
Every Dlv* command runs in a goroutine of its own, and all of them share the package globals `server` and `delve`.

## The system's parts

| Part | Source | State | Concurrency |
|---|---|---|---|
| Dlv* commands | `commands/delve.go` | globals `server` (*exec.Cmd), `delve` (*DelveClient: client, procPid, buffers, `breakpoints` map) | each command is `go handler(v)` (lines 124-144) |
| Delve struct front end | `commands/delve/delve.go` 1-456 | fields of `*Delve` (client, `bpSign`, `pcSign`) | every cmdX is `go d.x(...)`; `cont`/`next` start three more goroutines per stop |
| GoIferr | `commands/delve/delve.go` 457-546 | `os.Stdout`, an `os.Pipe` | `go Iferr` |
| autocmd bufWritePre | `unnamed/part_000` | `bufWritePreChan`, `wg` | one Fmt goroutine, joined |
| pathutil | `pathutil/pathutil.go` | Vim's cwd | a mutex local to each call |
| Guru | `commands/guru.go` 1-397 | package globals `b`, `w` (the current buffer and window) | `go Guru`; guru's Output callback under `outputMu` |
| GoBuild | `commands/guru.go` 398-500 | a temporary output file | `go Build` |
| buffer helpers | `nvim/buffer.go` | none (cursor arithmetic over the editor's lines) | none |
| registration | `commands/commands.go`, `command/command.go` | none | none |

How the parts interact:
- DlvStartServer assigns `server = exec.Command("dlv", ...)` and blocks in `server.Run()` for the server's lifetime.
- DlvStartClient requires `server != nil`. It dials the fixed address `localhost:41222`; `rpc2.NewClient` calls log.Fatal when the dial fails. It then builds the UI through an nvim pipeline, makes the breakpoint map, and seeds it with the unrecovered-panic breakpoint (id -1).
- DlvBreakpoint creates a breakpoint on the server and inserts it into the map.
- DlvContinue and DlvNext resume the debuggee and call ListBreakpoints. They sort the answer with `sort.Sort(ByID)` and reconcile it into the map by dereferencing `delve.breakpoints[bp.ID]`. They then rewrite the breakpoint pane.
- DlvRestart restarts the debuggee.
- DlvDetach detaches with `Detach(true)`, and its deferred `delveKill` kills `server.Process`. DlvKill runs `delveKill` alone.
- DlvCommand passes a command to delve's terminal with os.Stdout swapped to a pipe.
- GoGuru's Eval takes the current file and `&modified`. funcGuru then starts `go Guru`. Guru reads the current buffer and window into `b` and `w`, and computes the cursor's byte offset with `nvim.ByteOffset` (buffer.go). It sends a modified buffer as an overlay and runs the guru query. Each Output callback parses an answer into `loclist`, and Guru sets that list in Neovim.
- GoBuild's cmdBuild starts `go Build`. Build builds the package; with the `go` tool and no bang, compileCmd makes a temporary file for `-o`. On compile errors Build reads the current window, parses stderr and sets the current window's location list, the same list GoGuru writes.

## Modules

`DelveCommands.tla` models `commands/delve.go`.

Each goroutine running a handler is a slot of the constant set `G`, with a program counter `pc[g]` and locals `loc[g]`.
A step of a slot is the code between two RPC calls, or between an RPC and a write to a global.
Every write to `server` or `delve` happens inside a step, in the order the code does it.
The panics of the code are the absorbing value `crash`, because any unrecovered panic (or the log.Fatal) ends the plugin process.

| Variable | Code |
|---|---|
| `serverSet`, `serverProc` | `server != nil`, `server.Process` (NoProc while it is nil) |
| `delve` | `delve`: set, client, procPid != 0 (`pid`), UI built (`ui`), map made (`hasMap`), `breakpoints` as id -> TotalHitCount (`bps`) |
| `pane` | the ids in the last breakpoint table a refresh wrote |
| `src` | the source pane of parseThread: `src.name`, and the file whose text the pane shows |
| `procSt`, `srv` | the environment: each spawned dlv process (unborn/starting/listening/dead), and the listening server's breakpoints, hit counts and debuggee |

| Action | Code |
|---|---|
| `StartServer`, `StartServerRun` | `delveStartServer`: the handle assignment, then `server.Run()` |
| `StartClient`, `StartClientDial`, `StartClientGetPanic`, `StartClientInsert` | `delveStartClient`: the nil check, then the dial and UI, then `make` and GetBreakpoint(-1), then the insert of -1 |
| `Breakpoint`, `BreakpointRegister` | `delveBreakpoint`: argument forms, CreateBreakpoint, then the map insert |
| `Continue`/`ContinueList`, `DelveNext`/`NextList`, `Refresh` | `delveContinue`/`delveNext`: the RPC, then (Continue) parseThread and ListBreakpoints, then the sort and reconcile loop and the table rewrite, then (Next) parseThread |
| `ParseThread(f)` | the outcomes of `parseThread` for a thread in file `f`: a failing log print or cursor move; the same file; or `src.name = f` set before ReadFile, so that a failing read or printBuffer leaves the old text under the new name |
| `Restart`, `Detach`, `Kill`, `KillServer` | `delveRestart`, `delveDetach` (with its deferred kill), `CmdDelveKill`, `delveKill` |
| `Command` | `delveCommand`: a terminal `break`/`clear`/`continue`/`restart` changes the server behind the registry's back |
| `FunctionList` | `delveFunctionList`: read-only, so it is a stutter unless the client is nil |
| `Listen` | the environment: a spawned dlv binds the port, or exits because the port is taken |

`SortById` is Go's `sort.Sort` for fewer than 12 elements, which is an insertion sort over `ByID.Less`. It is written as RECURSIVE operators.

`MC_DelveCommands.tla` gives the constants model values: two goroutine slots, one or two dlv processes, one function name, one source file, and the argument forms of DlvBreakpoint. It also defines the symmetry over slots.

`StdoutCapture.tla` models the os.Stdout swap of `delveCommand` (`commands/delve.go` 288-322) and of `Iferr` (`commands/delve/delve.go` 480-546). Both run with `go`, so their swaps can overlap.

| Variable | Code |
|---|---|
| `stdout` | `os.Stdout`: `Orig` (Neovim's RPC stream), a pipe, or `NilFile` |
| `save`, `mine` | each call's `saveStdout`/`oldStdout` and its own `r, w` pair |
| `pipes` | every pipe made: its buffered chunks (at most `Cap`) and whether `w` is closed |
| `left`, `want`, `got` | the chunks a call has still to write, wrote in all, and read back |
| `calls` | calls issued so far (bounded by `MaxCalls`) |
| `logs`, `linecount`, `cursor`, `start` | the `[delve]` logs buffer's lines (`Blank` is an empty line, `Prompt` the `(dlv) ` line), the global `logs.linecount`, the logs window's cursor line, and each call's `printBuffer` start line |

| Action | Code |
|---|---|
| `DlvCmdStart`, `DlvCmdSwap`, `DlvCmdCall`, `DlvCmdClose`, `DlvCmdRestore`, `DlvCmdRead` | `delveCommand`: `os.Pipe`, the swap, `Call` printing chunk by chunk (with its early return on error), `w.Close()`, the restore, `ioutil.ReadAll` (a nil `r` fails, and the handler returns) |
| `DlvCmdCount`, `DlvCmdWrite` | `printBuffer(v, logs.buffer, true, ...)`: the line-count read (`PrintStart`: a single empty line counts as empty), then `SetBufferLines` from that line on, the `logs.linecount` assignment (made even when the write fails) and `SetWindowCursor`. Each of the three RPCs may fail; a failed cursor move leaves the pane written and the cursor where it was |
| `IferrStart`, `IferrSwap`, `IferrWrite`, `IferrClose`, `IferrRestore`, `IferrScan` | `Iferr`: `os.Pipe`, the swap, `format.Node` into `w`, the close, the restore, the scanner loop and `SetBufferLines` |

`os.Pipe` fails once `FdLimit` descriptors are in use. The model never closes a read end; in Go the `os.File` finalizer closes it once the handler drops it, so running out of descriptors is an over-approximation that only makes the nil-pipe path reachable, and no kept trace depends on it. Its dropped error makes `r` and `w` nil (`NilFile`). A write to a full pipe is not enabled, so the writer blocks.

`DelveStruct.tla` models the `*Delve` methods of `commands/delve/delve.go`. A slot of `G` is a handler goroutine; the follow-up goroutines of a stop are the set `tasks`.

| Variable | Code |
|---|---|
| `client` | `d.client`, nil until `setupDelve` |
| `signMap`, `signs` | `d.bpSign != nil` and its keys |
| `tasks`, `shown` | the pending context, pc-sign and cursor goroutines of each stop, and the stop each of them last displayed |
| `debuggee`, `nBps`, `stops` | the environment: the target process, the breakpoints and the stops the server made |

| Action | Code |
|---|---|
| `Debug` | `debug`/`connect` through the deferred `waitServer` and `setupDelve`: the handler ends with a client, or, when the server never came up, without one (startServer's error is only reported) |
| `BpParse`, `BpMake`, `BpCreate`, `BpSign` | `breakpoint`: `parseArgs` and the `d.bpSign == nil` test, the lazy `make`, `CreateBreakpoint`, the map insert. A map write is one step; while another goroutine is about to write the map too, the step may instead be the runtime's "concurrent map writes" abort, which Go detects only when the writes overlap |
| `ContCall`/`ContHandle`, `NextCall`/`NextHandle` | `cont`/`next`: the RPC, then the Exited check (cont only), the fan-out and the print |
| `FollowUp` | one follow-up goroutine: ListGoroutines and printContext, `pcSign.Place`, or SetWindowCursor |
| `Restart`, `Query` | `restart`; `state` and `FunctionsCompletion`, which matter only when the client is nil |

`Supervisor.tla` is the abstract process supervisor of spec §4.1, §3 and §7. It has three variables:
- `owned`: the handle;
- `alive`: the running servers;
- `raised`: whether a kill has raised.

Start is refused while the owned process runs. Kill stops the owned process. A process may exit on its own. Nothing raises.

DelveCommands maps its globals onto it with `Sup == INSTANCE Supervisor WITH`:
- `owned` is `serverProc`;
- `alive` is the spawned processes that are not dead;
- `raised` is `crash = "nil_process"`.

`SupSpec == Sup!Spec` is checked as a PROPERTY. Every other crash of the plugin is a stutter of the supervisor. The supervisor does not promise anything about them.

`NvimBuffer.tla` holds the cursor arithmetic of `nvim/buffer.go` as operators:
- `ByteOffset` and `ByteOffsetPipe`: the loop over the buffer lines, written as a RECURSIVE walk.
- `Line2Byte` and `EvalOffset`: Vim's `line2byte(line('.')) + (col('.')-2)`. This is the expression that the GoGuru registration in `commands/commands.go` evaluates for the same offset.

A buffer is the sequence of its lines' byte lengths.

`Guru.tla` models `Guru` of `commands/guru.go` and uses NvimBuffer. It also composes `Build` of the same file, because both goroutines write the current window's location list.

| Variable | Code |
|---|---|
| `b`, `w` | the package variables Guru reads the current buffer and window into |
| `call` | each call's Eval (file, modified), mode, and locals: the buffer, text version and cursor of its offset, `pos`, the overlay, the packages still to answer, and `loclist` (`ll`), plus every entry Output produced (`sent`) |
| `loclists` | each window's location list in Neovim |
| `curWin`, `text`, `saved`, `cursor` | the environment: the current window, each buffer's text version and version on disk, each window's cursor |
| `bpc`, `builds` | where each Build goroutine is, and the GoBuild calls issued (at most `MaxBuilds`) |
| `tmpfiles` | nvim-go temporary files left in `os.TempDir()` |

| Action | Code |
|---|---|
| `FuncGuru` | the Eval of the GoGuru registration and `go Guru` |
| `CurrentBufWin`, `Offset`, `Overlay` | `p.CurrentBuffer(&b)`/`p.CurrentWindow(&w)`/`Wait`; `nvim.ByteOffset`; BufferLines and BufferName of `b` into the overlay when `eval.Modified != 0` |
| `GuruRun`, `Output`, `RunReturn` | `guru.Run`: one Output for definition, one per package for referrers; the callback's `loclist, err = parseResult(...)`; Run's error return |
| `SetLoclist` | `nvim.SetLoclist` (assumed to fill the current window's list), then `ll 1` or `OpenLoclist` |
| `SwitchWindow`, `Edit`, `Save`, `MoveCursor` | the user, who goes on working while the goroutine runs |
| `CmdBuild` | `cmdBuild` and `Build` up to cmd.Run: the tool SetContext detects, `config.BuildForce`, compileCmd (`CompileCmdTmp`: a temporary `-o` file for `go` without a bang; TempFile's error returns; the deferred os.Remove runs as compileCmd returns), and cmd.Run's outcomes: success, which rewrites the removed file; compile errors; any other error |
| `BuildLoclist` | `CurrentWindow`, `ParseError` and `SetLoclist` on the current window, each returning on error |

`ParseResult` abstracts parseResult's mode switch to an answer of one entry, naming the package and the text version guru analysed. An empty answer yields the "not fount" error and an empty list.

Until it sets the location list, Build touches nothing that another goroutine reads: its Eval, context, command and stderr are its own. CmdBuild is therefore one step, and only the location list write interleaves with the editor and with Guru.

`guru.go` calls `nvim.ByteOffset(p)`, but the `buffer.go` in src defines `ByteOffset(v, b, w)` and `ByteOffsetPipe(p, b, w)`. The model uses the pipeline version on `b` and `w`.

`MC_StdoutCapture.tla`, `MC_DelveStruct.tla` and `MC_Guru.tla` give the constants of their runs.

## Runs

| Run | Expect | What it shows |
|---|---|---|
| `dlv_session` | pass | `TypeOK`, with two spawns: every handler step is reachable and its state well formed. |
| `dlv_refresh_missing_bp` | violation | `ReconcileFindsEveryId`: TLC's 7-step trace starts a dlv that listens, then a DlvStartClient whose nvim pipeline fails returns at its `p.Wait` check (delve.go:198/211), with the client set but before the breakpoint map is made. A DlvContinue then lists breakpoint -1 and dereferences the missing entry (delve.go:484). A Continue between `make` (218) and the insert of -1 (223) reaches the same line one step later. |
| `dlv_hits_regress` | violation | `HitCountsNeverRegress`: a Next that listed count 0 writes after a Continue that wrote count 1. The cached count regresses, against spec §3. |
| `dlv_orphan_server` | violation | `SupSpec`: DelveCommands does not refine the supervisor. A second DlvStartServer replaces the handle of a dlv that is still starting, so a later DlvKill reaches only the newer one. The same property also catches the nil-Process panic of delveKill (delve.go:632), through `raised`. |
| `stdout_fits` | pass | `TypeOK`: a DlvCommand and a GoIferr that overlap, with failing terminal commands, failing logs-pane RPCs and descriptor exhaustion, reach every step, and no pipe holds more than it buffers. |
| `stdout_not_restored` | violation | `StdoutRestored`: after every DlvCommand has returned, os.Stdout is not the original. TLC's trace is a failing Call that returns before the restore (delve.go:299). With `CallFails = {FALSE}` the same property fails for two overlapping calls: the second saved the first's pipe, and between the two restores it prints into Neovim's RPC stream. |
| `iferr_foreign_output` | violation | `IferrBufferIsItsSource`: a DlvCommand's terminal output goes into the pipe GoIferr swapped in, and GoIferr writes it into the user's buffer. |
| `dstruct_session` | pass | `TypeOK` of the *Delve model with two handlers, every command and argument form, two breakpoints, two stops and failing RPCs. |
| `guru_session` | pass | `TypeOK`, which bounds `pos` by the longest text. `OffsetIsEvalOffset`: the offset Guru sends, computed by ByteOffset, is always Vim's `line2byte(line('.')) + (col('.')-2)` for the same cursor and text. The run covers both modes, window switches, edits, saves and cursor moves, on texts with empty first and last lines, with a GoBuild running alongside. |
| `guru_wrong_buffer` | violation | `GuruAnswersItsQuery`: a window change between :GoGuru and the goroutine's pipeline read makes Guru compute the offset in the other buffer (guru.go:56). The same property catches a second GoGuru rewriting `b`/`w`, the Output callback keeping only the last package's referrers (guru.go:97), and an edit between the offset and the overlay read. |
| `dstruct_stale_display` | violation | `DisplayShowsLastStop`: two DlvNext in a row. The first stop's cursor goroutine finishes after the second's, so the cursor rests on a stop the debuggee has left (spec §5 asks for the follow-ups to be joined). |
| `dstruct_panic` | violation | `ErrorsNeverEndPlugin`: spec §7 says no error ends the hosting process. TLC's one-step trace is a DlvContinue, DlvNext, DlvRestart or DlvState before any DlvDebug/DlvConnect: the handler calls a method of the nil `d.client` (delve/delve.go:255, 323, 370, 387) and panics. The same model also reaches a nil `CurrentThread` after a failed Continue (:272) or an exited Next (:339), a nil `bpInfo` (:211), an index out of range in parseArgs, and the runtime's concurrent-map-write abort (:224). |

PROJECT.json lists each violation as a finding. Each property of a passing run has a mutant, a plausible bug that TLC must catch:
- `dlv_session`: `TypeOK` by `ReconciledOffByOne`.
- `stdout_fits`: `TypeOK` by `WriteToOffByOne`, a write loop that runs once past the end.
- `dstruct_session`: `TypeOK` by `ContHandleNoExitedCheck`, a cont without its Exited check.
- `guru_session`: `TypeOK` by `ByteOffsetNoBreak`, a loop without the `break` after `offset++`, and `OffsetIsEvalOffset` by `ByteOffsetNoIncrement`, a loop without the `offset++`.

## Bounds

- Two goroutine slots are enough for every race above; each violation needs at most two, and `dstruct_stale_display` needs only one.
- DelveCommands: `MaxBpId = 1` and `MaxHits = 1`. The registry can then hold two ids, -1 and 1. That is the smallest size at which sorting and stale counts can be observed. One function name is enough; with more, only the label of the breakpoint changes. `dlv_session` uses two dlv spawns, which covers the "already started" path and a dlv that loses the port, in 5.7 million states (about 90 s). One source file is enough for the pane: the first stop renames the empty pane, and a failing read leaves it empty under that name (two files give 7.9 million states and nothing new for the properties). With larger bounds it grows past 11 million states without reaching any new kind of step.
- StdoutCapture: `Cap = 2` chunks per pipe, `FdLimit = 5` descriptors, `MaxCalls = 3` calls in a run. Three calls at two descriptors each, with read ends never closed, run the descriptors out, so the nil-pipe path is taken. Output of one chunk per call keeps every run within one pipe. With output larger than `Cap` a writer blocks forever, because both handlers read only after writing everything (the hazards at delve.go:297 and delve/delve.go:529); no run checks that every call returns, since under these bounds it could not fail and with larger output it does. Two overlapping DlvCommands can both take the logs pane's line count before either writes, and the later write replaces the earlier one's lines (hazard delve.go:566); `stdout_fits` has one DlvCommand slot, and no run checks a property about it.
- DelveStruct: `MaxBp = 2` and `MaxStops = 2`. Two stops are the fewest at which an older stop's follow-up can overwrite a newer one's, and two breakpoints the fewest at which two DlvBreak goroutines race on `d.bpSign`.
- Guru: `guru_session` runs one call, because the locals of two calls next to an editor that keeps changing grow past 20 million states. One call already meets every editor change between any two of its steps. One GoBuild (`MaxBuilds = 1`, `BuildForce = FALSE`, both tools) takes every branch of Build. `guru_session` uses the symmetry that swaps the two windows together with their buffers, combined with the package permutations; with it the run has 3.8 million states (about 100 s). `guru_wrong_buffer` uses two calls. Two windows on two buffers, one edit per buffer, and two packages are the fewest at which a wrong buffer, a stale text and a lost package answer can occur. The texts `<<1, 0>>` and `<<0, 2>>` put cursors on row 1, on later rows, on empty lines and mid-line.
- `CHECK_DEADLOCK FALSE`: a crash is an absorbing state, and an idle plugin legitimately waits for the user.

## Fairness

- DelveCommands, DelveStruct and Guru check only safety (including the refinement, which is a safety property here), and their specifications have no fairness. The handlers run only when the user issues a command.
- StdoutCapture has no fairness either. No liveness property is checked: the one that matters, that every DlvCommand and GoIferr returns, holds only while all output fits in a pipe, where nothing can block, and fails as soon as output exceeds it (a write to a full pipe is not enabled, and both handlers read only after writing).

## Environment assumptions (delve's behaviour, not in src)

- A second dlv finds the port taken and exits.
- ListBreakpoints answers in any order.
- Restart resets hit counts.
- `Detach(true)` ends the server.
- Continue on an exited debuggee yields a state that is not Exited.
- `rpc2.NewClient` calls log.Fatal when the dial fails (DelveCommands' DlvStartClient dials directly; DelveStruct's dial goes through `waitServer`).
- A failed Continue RPC yields a state with `Err` set, `Exited` false and a nil `CurrentThread`. A Next past the end of the program yields an Exited state with a nil error. `CreateBreakpoint` dereferences its argument.
- `waitServer`, which is not under src, runs `setupDelve` once the server is up, so DelveStruct's `Debug` ends with a client or, when the server never comes up, without one; it never dials a closed port.
- The original os.Stdout is the msgpack-RPC stream to Neovim; the plugin host speaks RPC on stdio.
- guru's referrers query calls Output once per package; other modes call it once. `nvim.SetLoclist` sets the current window's list.

## Not modelled, and the plan

- Presentation: buffers, signs, `newBuffer`, and the rest of `nvim/buffer.go` (NewBuffer, Write, lineCount, Truncate, the Buf* helpers, which nothing in src calls). They write only to the editor. DelveStruct keeps, of each sign or cursor write, only which stop it shows.
- `Delve.stdin` repeats delveCommand's os.Stdout swap line for line, so StdoutCapture's DlvCmd* actions stand for it.
- `startServer`, `waitServer`, `createDebugBuffer`, `printContext` and `printTerminal` are called from `commands/delve/delve.go` but are not defined under src. Neither are the guru library and `context.Build.SetContext`.
- Command registration is single-shot, with no state. `tmpfiles` shows compileCmd's early removal of its temporary file (a leak on every successful GoBuild without a bang), but no run checks it. Build's location list going to the window that is current when it is set, not the one it read, is in the model but not checked either.
- Of `parseThread`, the log and locals panes and the signs. `printBuffer` is modelled for delveCommand's logs pane only. `ParseThread` keeps only the source pane. Their hazards are listed: the unsynchronized `stdout` buffer that dlv's output goroutine writes while parseThread reads and resets it, and (modelled, not checked) the stale `src.name`.
- pathutil: nothing in src calls Chdir or the other helpers, so there is no caller whose state they change.
- autocmd `bufWritePre` (`src/unnamed/part_000`): sequential, with one Fmt goroutine it joins. It calls `a.c.Iferr(file)` and `a.c.Fmt(dir)`, methods of types that src does not define; src's `Iferr(v, file)` is the function StdoutCapture models, so a composition would model code that is not there.
- Planned, in order:
  1. An abstract session state machine from spec §4.4 (Idle, ServerReady, Running, Stopped, Exited, Killed), with DelveStruct mapped onto it. In the *Delve code the controller's state is the server's, so the mapping must come from the handlers' own variables before it says anything about the code.
  2. A property that every breakpoint DlvBreak creates keeps its key in `d.bpSign` (delve/delve.go:215). The model already reaches the loss.
  3. A run in which the pipe can fill, checking that every call returns; it would show the hang of output larger than the pipe.
