------------------------------- MODULE Shell -------------------------------
(***************************************************************************)
(* The shell, user/sh.c: the parser, on the characters of a line, and      *)
(* runcmd(), which turns a parsed command into processes that run at the   *)
(* same time with pipes between them.  The system calls are what           *)
(* kernel/sysfile.c and kernel/proc.c make of them; the programs the shell *)
(* executes are external.                                                  *)
(***************************************************************************)
EXTENDS Integers, Sequences, FiniteSets

CONSTANTS MAXARGS,
          Letter,      \* characters words are made of
          Command,     \* the commands typed, as trees
          MaxProc      \* the processes there is room for

ASSUME ShellAssumption ==
  MAXARGS \in Nat \ {0} /\ MaxProc \in Nat \ {0} /\ Letter \cap {" ", "NUL"} = {}

VARIABLES typed,     \* the command typed
          proc,      \* the processes: what each runs and where it stands in it
          pipes      \* how many pipes have been made

shell == <<typed, proc, pipes>>

ExecCmd(argv) == [type |-> "EXEC", argv |-> argv]
Redir(cmd, file, mode, fd) ==
  [type |-> "REDIR", cmd |-> cmd, file |-> file, mode |-> mode, fd |-> fd]
Pipe(left, right) == [type |-> "PIPE", left |-> left, right |-> right]
List(left, right) == [type |-> "LIST", left |-> left, right |-> right]
Back(cmd) == [type |-> "BACK", cmd |-> cmd]

(***************************************************************************)
(* The scanner.  A position s is an index of the line; es is one past it.  *)
(***************************************************************************)
Ch(line, s) == IF s > Len(line) THEN "NUL" ELSE line[s]
Symbols == {"<", "|", ">", "&", ";", "(", ")"}

\* The first position from s on whose character is not in set.
RECURSIVE SkipOver(_, _, _)
SkipOver(line, s, set) ==
  IF s <= Len(line) /\ line[s] \in set THEN SkipOver(line, s + 1, set) ELSE s
Blank(line, s) == SkipOver(line, s, {" "})

(* Slip: ">>" is taken for a token of one character. *)
gettokenShort(line, ps) ==
  LET q == Blank(line, ps)
      c == Ch(line, q)
      ret == CASE c \in Letter -> "a"
               [] c = ">" /\ Ch(line, q + 1) = ">" -> "+" [] OTHER -> c
      eq == CASE c = "NUL" -> q [] c \in Letter -> SkipOver(line, q, Letter)
              [] OTHER -> q + 1
  IN  [tok |-> ret, q |-> q, eq |-> eq, s |-> Blank(line, eq)]
\* gettoken(): the token, where it starts and ends, where the next one starts.
gettoken(line, ps) ==
  LET q == Blank(line, ps)
      c == Ch(line, q)
      twice == c = ">" /\ Ch(line, q + 1) = ">"
      ret == CASE c \in Letter -> "a" [] twice -> "+" [] OTHER -> c
      eq == CASE c = "NUL" -> q [] c \in Letter -> SkipOver(line, q, Letter)
              [] twice -> q + 2 [] OTHER -> q + 1
  IN  [tok |-> ret, q |-> q, eq |-> eq, s |-> Blank(line, eq)]

peek(line, s, toks) == Ch(line, Blank(line, s)) \in toks

(***************************************************************************)
(* The parser.  Each operator returns the command and the position after   *)
(* it; panic() leaves position 0.  Words are still [q, eq].                *)
(***************************************************************************)
Parsed(cmd, s) == [cmd |-> cmd, s |-> s]
Syntax == Parsed(ExecCmd(<<>>), 0)
Failed(r) == r.s = 0
Skip(line, s) == gettoken(line, s).s         \* a token that peek has seen

RECURSIVE parseline(_, _), parsepipe(_, _), Arguments(_, _, _, _),
          parseredirs(_, _), Backs(_, _)

\* A redirection by token op to the word that token file is.
Redirection(cmd, op, file) ==
  LET word == [q |-> file.q, eq |-> file.eq] IN
  CASE op = "<" -> Redir(cmd, word, "read", 0)
    [] op = ">" -> Redir(cmd, word, "trunc", 1)
    [] op = "+" -> Redir(cmd, word, "write", 1)
RedirWord(line, r, op, file) ==
  IF file.tok # "a" THEN Syntax
  ELSE parseredirs(line, Parsed(Redirection(r.cmd, op, file), file.s))
RedirOp(line, r, op) == RedirWord(line, r, op.tok, gettoken(line, op.s))
parseredirs(line, r) ==
  IF Failed(r) \/ ~peek(line, r.s, {"<", ">"}) THEN r
  ELSE RedirOp(line, r, gettoken(line, r.s))

BlockEnd(line, r) ==
  IF Failed(r) \/ ~peek(line, r.s, {")"}) THEN Syntax
  ELSE parseredirs(line, Parsed(r.cmd, Skip(line, r.s)))
parseblock(line, s) == BlockEnd(line, parseline(line, Skip(line, s)))

\* ret nests the redirections around the one execcmd, which takes the words.
RECURSIVE AddWord(_, _)
AddWord(ret, word) ==
  IF ret.type = "EXEC" THEN ExecCmd(Append(ret.argv, word))
  ELSE [ret EXCEPT !.cmd = AddWord(ret.cmd, word)]

MoreArguments(line, r, argc) ==
  IF Failed(r) THEN Syntax ELSE Arguments(line, r.cmd, r.s, argc)
Argument(line, ret, t, argc) ==
  IF t.tok = "NUL" THEN Parsed(ret, t.s)
  ELSE IF t.tok # "a" \/ argc + 1 >= MAXARGS THEN Syntax
  ELSE MoreArguments(line,
         parseredirs(line, Parsed(AddWord(ret, [q |-> t.q, eq |-> t.eq]), t.s)),
         argc + 1)
Arguments(line, ret, s, argc) ==
  IF peek(line, s, {"|", ")", "&", ";"}) THEN Parsed(ret, s)
  ELSE Argument(line, ret, gettoken(line, s), argc)

parseexec(line, s) ==
  IF peek(line, s, {"("}) THEN parseblock(line, s)
  ELSE MoreArguments(line, parseredirs(line, Parsed(ExecCmd(<<>>), s)), 0)

Both(type, left, right) ==
  IF Failed(right) THEN Syntax
  ELSE Parsed([type |-> type, left |-> left.cmd, right |-> right.cmd], right.s)

PipeEnd(line, r) ==
  IF Failed(r) \/ ~peek(line, r.s, {"|"}) THEN r
  ELSE Both("PIPE", r, parsepipe(line, Skip(line, r.s)))
parsepipe(line, s) == PipeEnd(line, parseexec(line, s))

Backs(line, r) ==
  IF Failed(r) \/ ~peek(line, r.s, {"&"}) THEN r
  ELSE Backs(line, Parsed(Back(r.cmd), Skip(line, r.s)))

LineEnd(line, r) ==
  IF Failed(r) \/ ~peek(line, r.s, {";"}) THEN r
  ELSE Both("LIST", r, parseline(line, Skip(line, r.s)))
parseline(line, s) == LineEnd(line, Backs(line, parsepipe(line, s)))

\* nulterminate() puts a NUL after every word; a word is then what the string
\* functions find from its start to the next NUL.
RECURSIVE Ends(_), Terminated(_, _)
Ends(cmd) ==
  CASE cmd.type = "EXEC" -> {cmd.argv[i].eq : i \in DOMAIN cmd.argv}
    [] cmd.type = "REDIR" -> Ends(cmd.cmd) \cup {cmd.file.eq}
    [] cmd.type = "BACK" -> Ends(cmd.cmd)
    [] OTHER -> Ends(cmd.left) \cup Ends(cmd.right)
Terminated(cmd, buf) ==
  LET Word(w) == SubSeq(buf, w.q, SkipOver(buf, w.q, Letter \cup Symbols \cup {" "}) - 1) IN
  CASE cmd.type = "EXEC" -> ExecCmd([i \in DOMAIN cmd.argv |-> Word(cmd.argv[i])])
    [] cmd.type = "REDIR" -> [cmd EXCEPT !.cmd = Terminated(cmd.cmd, buf), !.file = Word(cmd.file)]
    [] cmd.type = "BACK" -> Back(Terminated(cmd.cmd, buf))
    [] OTHER -> [cmd EXCEPT !.left = Terminated(cmd.left, buf), !.right = Terminated(cmd.right, buf)]

CommandOf(line, r) ==
  IF Failed(r) \/ Blank(line, r.s) <= Len(line) THEN [type |-> "SYNTAX"]
  ELSE Terminated(r.cmd, [s \in 1 .. Len(line) + 1 |->
         IF s \in Ends(r.cmd) \cup {Len(line) + 1} THEN "NUL" ELSE line[s]])
parsecmd(line) == CommandOf(line, parseline(line, 1))

(***************************************************************************)
(* runcmd().  A process has its open descriptors in fds: the console, a    *)
(* file, or an end of a pipe.                                              *)
(***************************************************************************)
End(n, side) == [pipe |-> n, side |-> side]
Console == End(0, "console")
FileEnd(mode) == End(0, IF mode = "read" THEN "input" ELSE "output")

Pid == DOMAIN proc
Unused(fds) == CHOOSE fd \in 0 .. 9 : fd \notin DOMAIN fds /\ \A g \in 0 .. fd - 1 : g \in DOMAIN fds
Without(fds, set) == [fd \in DOMAIN fds \ set |-> fds[fd]]
Opened(fds, what) == [fd \in DOMAIN fds \cup {Unused(fds)} |->
                        IF fd \in DOMAIN fds THEN fds[fd] ELSE what]
Duplicated(fds, fd) == Opened(fds, fds[fd])

Runs(i, type) == i \in Pid /\ proc[i].at = "run" /\ proc[i].cmd.type = type
Becomes(i, p) == proc' = [proc EXCEPT ![i] = p]
Exited(p) == [p EXCEPT !.at = "exit", !.fds = <<>>]
New(parent, cmd, fds, at) == [at |-> at, cmd |-> cmd, fds |-> fds, parent |-> parent, p |-> <<0, 0>>]

\* fork1(): the child starts at its own place; without room the parent panics.
fork1(i, parent, child) ==
  IF Len(proc) < MaxProc THEN proc' = Append([proc EXCEPT ![i] = parent], child)
  ELSE Becomes(i, Exited(proc[i]))

\* wait(0) returns when a child exits, at once when there is none.
Wait(i, next) ==
  LET kids == {k \in Pid : proc[k].parent = i} IN
  \/ kids = {} /\ Becomes(i, next)
  \/ \E k \in kids : /\ proc[k].at = "exit"
                     /\ proc' = [proc EXCEPT ![i] = next, ![k].parent = 0]

runExec(i) ==
  /\ Runs(i, "EXEC")
  /\ \/ proc[i].cmd.argv # <<>> /\ Becomes(i, [proc[i] EXCEPT !.at = "program"])
     \/ Becomes(i, Exited(proc[i]))             \* no program, or exec() fails
  /\ UNCHANGED <<typed, pipes>>

runRedir(i) ==
  LET c == proc[i].cmd IN
  /\ Runs(i, "REDIR")
  /\ \/ Becomes(i, [proc[i] EXCEPT !.cmd = c.cmd,
                     !.fds = Opened(Without(proc[i].fds, {c.fd}), FileEnd(c.mode))])
     \/ Becomes(i, Exited(proc[i]))             \* open() fails
  /\ UNCHANGED <<typed, pipes>>

runList(i) ==
  /\ Runs(i, "LIST")
  /\ fork1(i, [proc[i] EXCEPT !.at = "wait"], New(i, proc[i].cmd.left, proc[i].fds, "run"))
  /\ UNCHANGED <<typed, pipes>>
runListRight(i) ==
  /\ i \in Pid /\ proc[i].at = "wait"
  /\ Wait(i, [proc[i] EXCEPT !.at = "run", !.cmd = proc[i].cmd.right])
  /\ UNCHANGED <<typed, pipes>>

runBack(i) ==
  /\ Runs(i, "BACK")
  /\ fork1(i, Exited(proc[i]), New(0, proc[i].cmd.cmd, proc[i].fds, "run"))
  /\ UNCHANGED <<typed, pipes>>

runPipe(i) ==                     \* pipe(p)
  LET r == Opened(proc[i].fds, End(pipes + 1, "read"))
      rw == Opened(r, End(pipes + 1, "write"))
  IN  /\ Runs(i, "PIPE")
      /\ Becomes(i, [proc[i] EXCEPT !.at = "left", !.fds = rw,
                       !.p = <<Unused(proc[i].fds), Unused(r)>>])
      /\ pipes' = pipes + 1 /\ UNCHANGED typed

(* Slip: the child keeps the ends of the pipe open. *)
PlumbedOpen(p, fd, side) == Duplicated(Without(p.fds, {fd}), p.p[side])
\* What a child does with its copy of the descriptors before it runs its side.
Plumbed(p, fd, side) == Without(Duplicated(Without(p.fds, {fd}), p.p[side]), {p.p[1], p.p[2]})

runPipeLeft(i) ==
  /\ i \in Pid /\ proc[i].at = "left"
  /\ fork1(i, [proc[i] EXCEPT !.at = "right"],
           New(i, proc[i].cmd.left, Plumbed(proc[i], 1, 2), "run"))
  /\ UNCHANGED <<typed, pipes>>
runPipeRight(i) ==
  /\ i \in Pid /\ proc[i].at = "right"
  /\ fork1(i, [proc[i] EXCEPT !.at = "close"],
           New(i, proc[i].cmd.right, Plumbed(proc[i], 0, 1), "run"))
  /\ UNCHANGED <<typed, pipes>>
runPipeClose(i) ==
  /\ i \in Pid /\ proc[i].at = "close"
  /\ Becomes(i, [proc[i] EXCEPT !.at = "wait1",
                   !.fds = Without(proc[i].fds, {proc[i].p[1], proc[i].p[2]})])
  /\ UNCHANGED <<typed, pipes>>
runPipeWait(i) ==
  /\ i \in Pid /\ proc[i].at \in {"wait1", "wait2"}
  /\ Wait(i, IF proc[i].at = "wait1" THEN [proc[i] EXCEPT !.at = "wait2"] ELSE Exited(proc[i]))
  /\ UNCHANGED <<typed, pipes>>

\* A program that reads a pipe to its end: it exits once nobody can write.
Writers(n) == {k \in Pid : \E fd \in DOMAIN proc[k].fds : proc[k].fds[fd] = End(n, "write")}
RunProgram(i) ==
  /\ i \in Pid /\ proc[i].at = "program"
  /\ proc[i].fds[0].side = "read" => Writers(proc[i].fds[0].pipe) = {}
  /\ Becomes(i, Exited(proc[i]))
  /\ UNCHANGED <<typed, pipes>>

(***************************************************************************)
(* main(): a line is read and parsed by a child of the shell, process 0.   *)
(***************************************************************************)
ThreeOpen == [fd \in 0 .. 2 |-> Console]

\* The line that stands for a command, in the notation parsecmd() reads.
RECURSIVE Notation(_), Joined(_)
Joined(words) ==
  IF words = <<>> THEN <<>> ELSE <<" ">> \o Head(words) \o Joined(Tail(words))
Grouped(cmd) == <<"(">> \o Notation(cmd) \o <<" ", ")">>
Simple(cmd) == IF cmd.type \in {"EXEC", "REDIR"} THEN Notation(cmd) ELSE Grouped(cmd)
Notation(cmd) ==
  CASE cmd.type = "EXEC" -> Joined(cmd.argv)
    [] cmd.type = "REDIR" ->
         Simple(cmd.cmd) \o (CASE cmd.mode = "read" -> <<"<">> [] cmd.mode = "trunc" -> <<">">>
                               [] OTHER -> <<" ", ">", ">">>) \o <<" ">> \o cmd.file
    [] cmd.type = "PIPE" ->
         Simple(cmd.left) \o <<"|">>
           \o (IF cmd.right.type = "PIPE" THEN Notation(cmd.right) ELSE Simple(cmd.right))
    [] cmd.type = "BACK" ->
         (IF cmd.cmd.type = "LIST" THEN Grouped(cmd.cmd) ELSE Notation(cmd.cmd)) \o <<" ", "&">>
    [] OTHER ->
         (IF cmd.left.type = "LIST" THEN Grouped(cmd.left) ELSE Notation(cmd.left)) \o <<";">> \o Notation(cmd.right)

Started(cmd) ==
  IF cmd.type = "SYNTAX" THEN Exited(New(0, ExecCmd(<<>>), ThreeOpen, "run"))
  ELSE New(0, cmd, ThreeOpen, "run")

ShellInit ==
  /\ typed \in Command /\ pipes = 0
  /\ proc = <<Started(parsecmd(Notation(typed)))>>

ShellNext ==
  \E i \in Pid :
    \/ runExec(i) \/ runRedir(i) \/ runList(i) \/ runListRight(i) \/ runBack(i)
    \/ runPipe(i) \/ runPipeLeft(i) \/ runPipeRight(i) \/ runPipeClose(i) \/ runPipeWait(i)
    \/ RunProgram(i)

ShellSpec == ShellInit /\ [][ShellNext]_shell

-----------------------------------------------------------------------------
\* Every process stands at a known place with descriptors that fit.
ShellTypeOK ==
  \A i \in Pid : /\ proc[i].parent \in 0 .. Len(proc)
                 /\ DOMAIN proc[i].fds \subseteq 0 .. 9

\* The parser finds the command a line stands for: precedence, nesting,
\* redirections and the words cut out of the line by nulterminate().
ParsesBack == parsecmd(Notation(typed)) = typed

\* A program starts with descriptors 0, 1 and 2 and nothing else: the ends of
\* the pipes it is not part of are closed, reads come from a read end and
\* writes go to a write end, so that every reader sees the end of its input.
ProgramDescriptors ==
  \A i \in Pid : proc[i].at = "program" =>
    /\ DOMAIN proc[i].fds = 0 .. 2
    /\ proc[i].fds[0].side \notin {"write", "output"}
    /\ proc[i].fds[1].side \notin {"read", "input"}
    /\ proc[i].fds[2] = Console

\* Nobody waits on everybody: unless every process has ended, one can go on.
SomebodyRuns ==
  (\E i \in Pid : proc[i].at # "exit") => ENABLED ShellNext

\* A pipeline of any shape runs to its end.
PipelinesRun == ProgramDescriptors /\ SomebodyRuns
=============================================================================
