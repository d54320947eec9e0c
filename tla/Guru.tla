-------------------------------- MODULE Guru --------------------------------
(***************************************************************************)
(* The GoGuru handler, src/src/nvim-go/commands/guru.go.                   *)
(*                                                                         *)
(* funcGuru starts `go Guru(...)` and returns, so every GoGuru call is a  *)
(* goroutine (a slot of G) that runs while the user goes on editing.  The *)
(* handler reads the current buffer and window into the package globals   *)
(* b and w, computes the cursor's byte offset in them, sends the buffer as *)
(* an overlay when it is modified, runs the guru query (whose Output       *)
(* callback may be called once per package) and sets the location list.   *)
(*                                                                         *)
(* The editor is the environment: windows showing buffers, the current    *)
(* window, every buffer's text version (Docs[v] gives its lines) and the   *)
(* version on disk, and a cursor per window.  An answer entry names the   *)
(* package it came from and the text version guru analysed.                *)
(*                                                                         *)
(* GoBuild (the Build half of the same file) is composed in: cmdBuild also *)
(* starts a goroutine (a slot of Bld), which builds the package and, when *)
(* the build fails, fills the current window's location list too.         *)
(***************************************************************************)
EXTENDS Integers, Sequences, FiniteSets, FiniteSetsExt, NvimBuffer

CONSTANTS
    G,          \* goroutine slots running Guru
    Wins,       \* editor windows
    WinBuf,     \* [Wins -> buffer]: the buffer each window shows
    Docs,       \* [0..MaxEdits -> Seq(line length)]: text of each version
    MaxEdits,   \* bound on the edits of a buffer
    Pkgs,       \* packages a query answer may come from
    Modes,      \* guru modes the user asks for
    NoBuf,      \* the zero vim.Buffer / vim.Window of the globals b and w
    Bld,        \* goroutine slots running Build
    Tools,      \* build tools SetContext may detect ("go", "gb")
    BuildForce, \* config.BuildForce
    MaxBuilds   \* bound on the GoBuild calls

Bufs == {WinBuf[x] : x \in Wins}
Vers == 0..MaxEdits
Entry == [pkg : Pkgs, ver : Vers]
\* A compile error of the package the k-th Build built.
BuildErr == [bld : Bld]
NoOvl == [name |-> NoBuf, ver |-> 0]
\* The bytes of the longest text a buffer can have.
MaxSize == Max({DocSize(Docs[v]) : v \in Vers})

ASSUME Modes \subseteq {"definition", "referrers"} /\ NoBuf \notin Bufs \cup Wins
ASSUME Tools \subseteq {"go", "gb"} /\ BuildForce \in BOOLEAN

VARIABLES
    pc,         \* [G -> label]
    call,       \* [G -> record]: eval, mode and the handler's locals
    b, w,       \* the package-level vim.Buffer and vim.Window
    curWin,     \* the window Neovim has current
    text,       \* [Bufs -> version]: the buffer's current text
    saved,      \* [Bufs -> version]: the text on disk
    cursor,     \* [Wins -> <<row, col>>]
    loclists,   \* [Wins -> SUBSET (Entry \cup BuildErr)]: location lists
    bpc,        \* [Bld -> label]
    tmpfiles,   \* nvim-go temporary files left in os.TempDir()
    builds      \* GoBuild calls issued

vars == <<pc, call, b, w, curWin, text, saved, cursor, loclists, bpc,
          tmpfiles, builds>>
buildVars == <<bpc, tmpfiles, builds>>

NoCall == [mode |-> "definition", file |-> NoBuf, modified |-> FALSE,
           pb |-> NoBuf, pver |-> 0, pcur |-> <<1, 0>>, pos |-> 0, ovl |-> NoOvl,
           todo |-> {}, sent |-> {}, ll |-> {}]

Goto(g, l) == pc' = [pc EXCEPT ![g] = l]
Return(g)  == pc' = [pc EXCEPT ![g] = "idle"] /\ call' = [call EXCEPT ![g] = NoCall]
Editor     == <<curWin, text, saved, cursor>>

-----------------------------------------------------------------------------
(* The user, in Neovim.                                                    *)

SwitchWindow(x) ==
    /\ curWin' = x
    /\ UNCHANGED <<pc, call, b, w, text, saved, cursor, loclists>>
    /\ UNCHANGED buildVars

\* An edit makes a new version of the current buffer; the cursor lands
\* somewhere in it (every window on that buffer keeps a valid cursor).
Edit ==
    LET buf == WinBuf[curWin] IN
    /\ text[buf] < MaxEdits
    /\ text' = [text EXCEPT ![buf] = @ + 1]
    /\ \E c \in [{x \in Wins : WinBuf[x] = buf} -> Cursors(Docs[text[buf] + 1])] :
          cursor' = [x \in Wins |-> IF x \in DOMAIN c THEN c[x] ELSE cursor[x]]
    /\ UNCHANGED <<pc, call, b, w, curWin, saved, loclists>>
    /\ UNCHANGED buildVars

Save ==
    /\ saved' = [saved EXCEPT ![WinBuf[curWin]] = text[WinBuf[curWin]]]
    /\ UNCHANGED <<pc, call, b, w, curWin, text, cursor, loclists>>
    /\ UNCHANGED buildVars

MoveCursor ==
    /\ \E c \in Cursors(Docs[text[WinBuf[curWin]]]) :
          cursor' = [cursor EXCEPT ![curWin] = c]
    /\ UNCHANGED <<pc, call, b, w, curWin, text, saved, loclists>>
    /\ UNCHANGED buildVars

-----------------------------------------------------------------------------
(* funcGuru and Guru                                                       *)

\* :GoGuru evaluates its Eval (expand('%:p'), &modified) in the current
\* window and funcGuru starts the goroutine.
FuncGuru(g) ==
    /\ pc[g] = "idle"
    /\ \E m \in Modes :
          LET f == WinBuf[curWin] IN
          call' = [call EXCEPT ![g] = [NoCall EXCEPT
                       !.mode = m, !.file = f, !.modified = text[f] # saved[f]]]
    /\ Goto(g, "pipe")
    /\ UNCHANGED <<b, w, loclists>> /\ UNCHANGED Editor
    /\ UNCHANGED buildVars

\* p.CurrentBuffer(&b); p.CurrentWindow(&w); p.Wait(): the replies land in
\* the globals; a failing Wait returns.
CurrentBufWin(g) ==
    /\ pc[g] = "pipe"
    /\ b' = WinBuf[curWin]
    /\ w' = curWin
    /\ \/ Goto(g, "offset") /\ UNCHANGED call
       \/ Return(g)
    /\ UNCHANGED loclists /\ UNCHANGED Editor
    /\ UNCHANGED buildVars

\* pos, err := nvim.ByteOffset(p): the cursor of w in the lines of b
\* (ByteOffsetPipe); an error is echoed and returns.
Offset(g) ==
    /\ pc[g] = "offset"
    /\ \/ /\ call' = [call EXCEPT ![g].pb = b, ![g].pver = text[b],
                           ![g].pcur = cursor[w],
                           ![g].pos = ByteOffsetPipe(Docs[text[b]], cursor[w])]
          /\ Goto(g, IF call[g].modified THEN "overlay" ELSE "run")
       \/ Return(g)
    /\ UNCHANGED <<b, w, loclists>> /\ UNCHANGED Editor
    /\ UNCHANGED buildVars

\* eval.Modified != 0: BufferLines(b) and BufferName(b) become the overlay
\* of the build context; a failing Wait returns.
Overlay(g) ==
    /\ pc[g] = "overlay"
    /\ \/ /\ call' = [call EXCEPT ![g].ovl = [name |-> b, ver |-> text[b]]]
          /\ Goto(g, "run")
       \/ Return(g)
    /\ UNCHANGED <<b, w, loclists>> /\ UNCHANGED Editor
    /\ UNCHANGED buildVars

\* guru.Run(mode, &query): definition answers once, referrers once per
\* package.  Guru analyses eval.File from the overlay when the overlay
\* holds it, from disk otherwise.
GuruRun(g) ==
    /\ pc[g] = "run"
    /\ \E todo \in IF call[g].mode = "referrers" THEN {Pkgs}
                   ELSE {{k} : k \in Pkgs} :
          call' = [call EXCEPT ![g].todo = todo]
    /\ Goto(g, "output")
    /\ UNCHANGED <<b, w, loclists>> /\ UNCHANGED Editor
    /\ UNCHANGED buildVars

\* The text version guru reads for the queried file.
Analysed(c) == IF c.ovl.name = c.file THEN c.ovl.ver ELSE saved[c.file]

\* parseResult of one package's answer: its entries, or the "not fount"
\* error (echoed) with an empty list when the package has none.
ParseResult(c, k) == {{}, {[pkg |-> k, ver |-> Analysed(c)]}}

\* The Output callback, under outputMu: `loclist, err = parseResult(...)`.
Output(g) ==
    /\ pc[g] = "output"
    /\ \E k \in call[g].todo : \E res \in ParseResult(call[g], k) :
          call' = [call EXCEPT ![g].todo = @ \ {k}, ![g].ll = res,
                               ![g].sent = @ \cup res]
    /\ UNCHANGED <<pc, b, w, loclists>> /\ UNCHANGED Editor
    /\ UNCHANGED buildVars

\* guru.Run returns: an error is echoed and returns before SetLoclist.
RunReturn(g) ==
    /\ pc[g] = "output" /\ call[g].todo = {}
    /\ \/ Goto(g, "setloc") /\ UNCHANGED call
       \/ Return(g)
    /\ UNCHANGED <<b, w, loclists>> /\ UNCHANGED Editor
    /\ UNCHANGED buildVars

\* nvim.SetLoclist(p, loclist) fills the current window's location list;
\* then `ll 1` for definition, nvim.OpenLoclist(p, w, ...) otherwise.
SetLoclist(g) ==
    /\ pc[g] = "setloc"
    /\ \/ loclists' = [loclists EXCEPT ![curWin] = call[g].ll]
       \/ UNCHANGED loclists                     \* SetLoclist failed
    /\ Return(g)
    /\ UNCHANGED <<b, w>> /\ UNCHANGED Editor
    /\ UNCHANGED buildVars

-----------------------------------------------------------------------------
(* cmdBuild and Build                                                      *)

GuruVars    == <<pc, call, b, w, loclists>>

\* compileCmd: the "go" tool without a bang builds into a temporary file.
CompileCmdTmp(bang, tool) == tool = "go" /\ ~bang

\* :GoBuild[!] evaluates its Eval and cmdBuild starts the goroutine.
\* Build then runs without touching anything another goroutine reads, up
\* to its location list: SetContext(eval.Dir) detects the tool, `bang =
\* config.BuildForce` when no bang was given, and compileCmd, with "go"
\* and no bang, makes an ioutil.TempFile (its error returns) to pass as
\* `-o`, and its deferred os.Remove deletes the file as compileCmd
\* returns.  cmd.Run: a successful build echoes and returns, and `go
\* build -o` has written the removed file again; an *exec.ExitError
\* (compile errors) goes on to the location list; another error returns.
CmdBuild(k) ==
    /\ bpc[k] = "idle" /\ builds < MaxBuilds
    /\ builds' = builds + 1
    /\ \E bang \in BOOLEAN, tool \in Tools :
          LET out == CompileCmdTmp(bang \/ BuildForce, tool) IN
          \/ out /\ UNCHANGED <<bpc, tmpfiles>>           \* TempFile failed
          \/ tmpfiles' = tmpfiles + (IF out THEN 1 ELSE 0) /\ UNCHANGED bpc
          \/ bpc' = [bpc EXCEPT ![k] = "loclist"] /\ UNCHANGED tmpfiles
          \/ UNCHANGED <<bpc, tmpfiles>>                  \* Run failed
    /\ UNCHANGED GuruVars /\ UNCHANGED Editor

\* v.CurrentWindow(), quickfix.ParseError of stderr and quickfix.SetLoclist,
\* each returning on error; SetLoclist fills the current window's list.
\* OpenLoclist(v, w, ...) then only opens the list window.
BuildLoclist(k) ==
    /\ bpc[k] = "loclist"
    /\ \/ loclists' = [loclists EXCEPT ![curWin] = {[bld |-> k]}]
       \/ UNCHANGED loclists
    /\ bpc' = [bpc EXCEPT ![k] = "idle"]
    /\ UNCHANGED <<tmpfiles, builds, pc, call, b, w>> /\ UNCHANGED Editor

-----------------------------------------------------------------------------
Init ==
    /\ pc = [g \in G |-> "idle"]
    /\ call = [g \in G |-> NoCall]
    /\ b = NoBuf /\ w = NoBuf
    /\ curWin \in Wins
    /\ text = [x \in Bufs |-> 0] /\ saved = [x \in Bufs |-> 0]
    /\ cursor \in [Wins -> Cursors(Docs[0])]
    /\ loclists = [x \in Wins |-> {}]
    /\ bpc = [k \in Bld |-> "idle"]
    /\ tmpfiles = 0 /\ builds = 0

Next ==
    \/ \E x \in Wins : SwitchWindow(x)
    \/ Edit \/ Save \/ MoveCursor
    \/ \E g \in G :
        \/ FuncGuru(g) \/ CurrentBufWin(g) \/ Offset(g) \/ Overlay(g)
        \/ GuruRun(g) \/ Output(g) \/ RunReturn(g) \/ SetLoclist(g)
    \/ \E k \in Bld :
        \/ CmdBuild(k) \/ BuildLoclist(k)

Spec == Init /\ [][Next]_vars

-----------------------------------------------------------------------------
(* Properties                                                              *)

TypeOK ==
    /\ pc \in [G -> {"idle", "pipe", "offset", "overlay", "run", "output",
                     "setloc"}]
    /\ \A g \in G :
          /\ call[g].pos \in 0..(MaxSize - 1)
          /\ call[g].todo \subseteq Pkgs
          /\ call[g].ll \subseteq Entry /\ call[g].sent \subseteq Entry
    /\ b \in Bufs \cup {NoBuf} /\ w \in Wins \cup {NoBuf}
    /\ text \in [Bufs -> Vers] /\ saved \in [Bufs -> Vers]
    /\ loclists \in [Wins -> SUBSET (Entry \cup BuildErr)]
    /\ bpc \in [Bld -> {"idle", "loclist"}]
    /\ tmpfiles \in 0..builds /\ builds \in 0..MaxBuilds

\* The #offset Guru sends (nvim.ByteOffset over the buffer lines, buffer.go)
\* is the byte offset the GoGuru registration computes in Vim,
\* line2byte(line('.')) + (col('.')-2), for the cursor and text it read.
OffsetIsEvalOffset ==
    \A g \in G : pc[g] \in {"overlay", "run", "output", "setloc"} =>
        call[g].pos = EvalOffset(Docs[call[g].pver], call[g].pcur)

\* When Guru is about to set the location list, the list holds every entry
\* the query's Output calls produced, and the query was about the buffer
\* GoGuru was called in and the text the offset was computed on.
GuruAnswersItsQuery ==
    \A g \in G : pc[g] = "setloc" =>
        /\ call[g].ll = call[g].sent
        /\ call[g].pb = call[g].file
        /\ \A e \in call[g].ll : e.ver = call[g].pver

=============================================================================
