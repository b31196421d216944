------------------------------ MODULE MCPrograms ------------------------------
(***************************************************************************)
(* Six parts of the system that share no state, explored one at a time:    *)
(* the files (Files), their data (FileData), the memory of processes       *)
(* (Memory), the heap of a program (Umalloc), the shell (Shell), and the   *)
(* library with cat, grep and wc (Library).  The variable part, chosen at  *)
(* the start, says which of them runs; the others stay as they started.    *)
(***************************************************************************)
EXTENDS MCFiles, FileData, Memory, Umalloc, Shell, Library

VARIABLE part

rest == <<vars, dataVars, memVars, umallocVars, shell, library>>

(* Files i (opened as f) and j (opened as h); p writes 1s and q writes 2s. *)
MCInodeOf == [f \in OpenFile |-> IF f = "h" THEN "j" ELSE "i"]
MCValueOf == [p \in Writer |-> IF p = "p" THEN 1 ELSE 2]

(* The image: no file, or one of two blocks, the second in an indirect block. *)
MCImage == {<<>>, << <<"i", 1>>, <<"i", 1>> >>}

(* The segments of the programs exec() may load, by their ends.            *)
MCProgram == {<<1, 2>>}

(* Commands typed: two simple ones and the empty one, with a redirection,  *)
(* joined two by two, and some nested one level more.                      *)
X == ExecCmd(<< <<"x">> >>)
XY == ExecCmd(<< <<"x", "y">>, <<"y">> >>)
Redirected == {Redir(c, <<"y">>, m[1], m[2]) :
                 c \in {X, XY}, m \in {<<"read", 0>>, <<"trunc", 1>>, <<"write", 1>>}}
Simples == {X, XY, ExecCmd(<<>>)} \cup Redirected
Two(L, R) == {Pipe(l, r) : l \in L, r \in R} \cup {List(l, r) : l \in L, r \in R}
XTwoX == Two({X}, {X})
Nested == Two({X}, Two({X, XY}, {X})) \cup Two(XTwoX, {X})
            \cup {Redir(c, <<"y">>, "read", 0) :
                    c \in XTwoX \cup {Back(X), Redir(X, <<"x">>, "trunc", 1)}}
            \cup {Back(c) : c \in XTwoX \cup {Back(X)}}
MCCommand == Simples \cup Two(Simples, Simples) \cup {Back(c) : c \in Simples} \cup Nested

(* Patterns of two characters, and some longer ones; files of four; the    *)
(* numbers at the ends of the range and around a new digit.                *)
MCPattern == BoundedSeq({"a", ".", "*", "^", "$"}, 2)
               \cup {<<"a", "*", "b">>, <<"^", "a", "*", "$">>, <<".", "*", "b", "$">>,
                     <<"*", "*", "a">>, <<"b", "a", "*", "a">>}
MCText == BoundedSeq({"a", "b", "NL", " "}, 4)
MCNumber == {0, 1, 9, 10, 127, -1, -127, -128}

(* Two files, the first one perhaps without a newline at its end; path     *)
(* names with doubled, leading and trailing slashes and long elements.     *)
MCBatch == {<<f, g>> : f, g \in BoundedSeq({"a", "NL"}, 2)} \cup {<< <<>> >>}
MCPathName == BoundedSeq({"/", "a", "b"}, 5)

(* Calls of printf(): one part, or two with arguments to mix up, and a     *)
(* lone % at the end.  A string may contain a %.                           *)
Part(c, args) == {[fmt |-> <<"%", c>>, ap |-> <<a>>] : a \in args}
Plain == {[fmt |-> f, ap |-> <<>>] : f \in {<<"d">>, <<"%", "%">>, <<"%", "q">>}}
Letters == UNION {Part(c, MCNumber) : c \in {"d", "x", "p", "l"}} \cup Part("b", {0, 31, 127})
             \cup Part("s", {<<>>, << <<"a", "%", "d">> >>}) \cup Part("c", {"%"})
Percent == {<<>>, << [fmt |-> <<"%">>, ap |-> <<>>] >>}
MCCall == {<<x>> \o y : x \in Plain \cup Letters, y \in Percent}
            \cup {<<x, y>> : x, y \in Plain \cup Part("x", {-1, 10}) \cup Part("d", {127})
                                       \cup Part("s", {<<>>, << <<"%">> >>})}

(* Bound: the file j has at most one block.                                *)
ShortSecond == disk.size["j"] <= 1

(* The memory before kinit() has given anything out.                       *)
NoMemory ==
  /\ freelist = Page /\ space = [p \in Slot |-> NoSpace]
  /\ fault = "" /\ inOp = 0 /\ failed = ""

PartsInit ==
  /\ part \in {"files", "data", "memory", "umalloc", "shell", "library"}
  /\ Init /\ DataInit /\ UmallocInit /\ ShellInit
  /\ IF part = "memory" THEN MemInit ELSE NoMemory
  /\ part # "data" => disk = MkfsDisk(<<>>)
  /\ part # "shell" => typed = X
  /\ IF part = "library" THEN LibraryInit
     ELSE job = Job("printf", << <<>> >>, <<>>) /\ mem = [a \in Cell |-> "NUL"]

PartsNext ==
  /\ part' = part
  /\ \/ /\ part = "files" /\ Next
        /\ UNCHANGED <<dataVars, memVars, umallocVars, shell, library>>
     \/ /\ part = "data" /\ DataNext
        /\ UNCHANGED <<vars, memVars, umallocVars, shell, library>>
     \/ /\ part = "memory" /\ MemNext
        /\ UNCHANGED <<vars, dataVars, umallocVars, shell, library>>
     \/ /\ part = "umalloc" /\ UmallocNext
        /\ UNCHANGED <<vars, dataVars, memVars, shell, library>>
     \/ /\ part = "shell" /\ ShellNext
        /\ UNCHANGED <<vars, dataVars, memVars, umallocVars, library>>
     \/ /\ part = "library" /\ LibraryNext
        /\ UNCHANGED <<vars, dataVars, memVars, umallocVars, shell>>

PartsSpec == PartsInit /\ [][PartsNext]_<<part, rest>>

\* Every variable of the files, their data, the memory and the shell has its type.
PartsTypeOK == TypeOK /\ DataTypeOK /\ MemTypeOK /\ ShellTypeOK

\* What programs take from the library does what they count on: malloc()'s
\* heap (HeapConsistent), strings in memory, and texts and numbers.
LibraryExact == HeapConsistent /\ StringsExact /\ FiltersExact /\ PrintfExact
===============================================================================
