------------------------------- MODULE Library ------------------------------
(***************************************************************************)
(* Routines and filters that programs and the kernel share: the strings of *)
(* kernel/string.c and user/ulib.c, path names as fs.c takes them apart,   *)
(* printf() in the kernel, in programs and in the boot loader with atoi(), *)
(* the pattern matcher of user/grep.c, and the programs cat, grep and wc,  *)
(* which get a file in pieces of any size, as a pipe or the console gives  *)
(* it.  A C string is a sequence, except in mem, where it ends at its NUL. *)
(***************************************************************************)
EXTENDS Integers, SequencesExt

CONSTANTS MEM, Char,           \* bytes of the memory strings are copied in; what they hold
          Text, Pattern,       \* files, without NULs; patterns for grep
          Batch,               \* what a filter is given: sequences of files
          BUFSIZE,             \* sizeof(buf) of the filters and of callers of gets()
          PathName, DIRSIZ,    \* path names, and how much of an element counts
          Call, BITS           \* calls of printf(); the width of an int (32)

ASSUME LibraryAssumption ==
  /\ MEM \in Nat \ {0} /\ "NUL" \in Char /\ BUFSIZE > 1 /\ DIRSIZ > 0
  /\ BITS \in {8, 16, 32} /\ << <<>> >> \in Batch

VARIABLES mem,   \* the memory
          job    \* a program: the files it has still to read, its buffer, what it has put out

library == <<mem, job>>

Cell == 0 .. MEM - 1
Upward(n) == [k \in 1 .. n |-> k - 1]
Copy(m, d, s, order) == FoldLeft(LAMBDA x, k : [x EXCEPT ![d + k] = x[s + k]], m, order)

memmove(m, d, s, n) ==             \* kernel/string.c and boot/main.c
  Copy(m, d, s, IF s < d /\ s + n > d THEN Reverse(Upward(n)) ELSE Upward(n))
ulib_memmove(m, d, s, n) ==        \* user/ulib.c
  Copy(m, d, s, IF s > d THEN Upward(n) ELSE Reverse(Upward(n)))

\* while (n-- > 0 && (*d++ = *s++) != 0): the state after it.
RECURSIVE CopyString(_)
CopyString(w) ==
  IF w.n = 0 THEN w
  ELSE LET next == [m |-> [w.m EXCEPT ![w.d] = w.m[w.s]], d |-> w.d + 1, s |-> w.s + 1, n |-> w.n - 1]
       IN IF w.m[w.s] = "NUL" THEN next ELSE CopyString(next)
memset(m, d, n) == [a \in Cell |-> IF a \in d .. d + n - 1 THEN "NUL" ELSE m[a]]
strncpy(m, d, s, n) ==
  LET w == CopyString([m |-> m, d |-> d, s |-> s, n |-> n]) IN memset(w.m, w.d, w.n)
safestrcpy(m, d, s, n) ==
  IF n = 0 THEN m
  ELSE LET w == CopyString([m |-> m, d |-> d, s |-> s, n |-> n - 1]) IN [w.m EXCEPT ![w.d] = "NUL"]

RECURSIVE strncmp(_, _, _, _)      \* whether it returns 0
strncmp(m, p, q, n) ==
  \/ n = 0
  \/ m[p] = m[q] /\ (m[p] = "NUL" \/ strncmp(m, p + 1, q + 1, n - 1))

RECURSIVE strlen(_, _), strcmp(_, _, _), memcmp(_, _, _, _), strchr(_, _, _)
strlen(m, s) == IF m[s] = "NUL" THEN 0 ELSE 1 + strlen(m, s + 1)
strcmp(m, p, q) ==                 \* whether it returns 0
  IF m[p] # "NUL" /\ m[p] = m[q] THEN strcmp(m, p + 1, q + 1) ELSE m[p] = m[q]
memcmp(m, p, q, n) == n = 0 \/ (m[p] = m[q] /\ memcmp(m, p + 1, q + 1, n - 1))
strchr(m, s, c) ==                 \* 0 is the null pointer
  IF m[s] = "NUL" THEN 0 ELSE IF m[s] = c THEN s ELSE strchr(m, s + 1, c)
strcpy(m, d, s) == CopyString([m |-> m, d |-> d, s |-> s, n |-> MEM]).m

\* skipelem(path, name): the element is put into the DIRSIZ bytes of name, where
\* it ends in a NUL only if there is room for one; what was behind it stays.
From(s, k) == SubSeq(s, k, Len(s))
Slashes(path) ==                   \* how many lead it
  SelectInSeq(Append(path, "NUL"), LAMBDA c : c # "/") - 1
skipelem(path, name) ==
  LET s == From(path, Slashes(path) + 1)
      len == SelectInSeq(Append(s, "NUL"), LAMBDA c : c \in {"/", "NUL"}) - 1
      rest == From(s, len + 1)
  IN  [found |-> s # <<>>,
       name |-> [k \in 1 .. DIRSIZ |-> IF k <= len THEN s[k]
                                       ELSE IF k = len + 1 THEN "NUL" ELSE name[k]],
       path |-> From(rest, Slashes(rest) + 1)]

(***************************************************************************)
(* printf().  The loops of printint() give the digits from the last one    *)
(* on, which are printed from the first.  A call is made of parts, each a  *)
(* piece of the format with the arguments it takes; an argument of %s is a *)
(* sequence of one string, or the empty one for a null pointer.            *)
(***************************************************************************)
Figure == <<"0", "1", "2", "3", "4", "5", "6", "7", "8", "9", "a", "b", "c", "d", "e", "f">>

RECURSIVE Digits(_, _)
Digits(x, base) ==
  <<Figure[(x % base) + 1]>> \o (IF x \div base = 0 THEN <<>> ELSE Digits(x \div base, base))
printint(xx, base, sign) ==
  LET negative == sign /\ xx < 0
      x == (IF negative THEN 0 - xx ELSE xx) % 2^BITS
  IN  Reverse(Digits(x, base) \o (IF negative THEN <<"-">> ELSE <<>>))
printptr(x) ==                     \* the upper four bits of x, x << 4 and so on
  <<"0", "x">> \o [i \in 1 .. BITS \div 4 |-> Figure[(((x * 16^(i - 1)) % 2^BITS) \div 2^(BITS - 4)) + 1]]
printbyte(x) == <<Figure[((x \div 16) % 16) + 1], Figure[(x % 16) + 1]>>
String0(s) == IF s = <<>> THEN <<"(null)">> ELSE s[1]

\* What the letters behind a % stand for.
vprintf_letters == {"d", "l", "x", "p", "s", "c"}
vprintf_text(c, a) ==
  CASE c = "d" -> printint(a, 10, TRUE) [] c = "l" -> printint(a, 10, FALSE)
    [] c = "x" -> printint(a, 16, FALSE) [] c = "p" -> printptr(a)
    [] c = "s" -> String0(a) [] c = "c" -> <<a>>
printf_letters == {"d", "x", "p", "s"}
boot_letters == {"b", "d", "x", "p", "s"}
printf_text(c, a) ==               \* the kernel's and the boot loader's: %x has a sign
  CASE c = "d" -> printint(a, 10, TRUE) [] c = "x" -> printint(a, 16, TRUE)
    [] c = "p" -> printptr(a) [] c = "b" -> printbyte(a) [] c = "s" -> String0(a)

vprintf(fmt, ap) ==                \* user/printf.c: state says whether a % came before
  LET Step(w, c) ==
        IF ~w.state THEN IF c = "%" THEN [w EXCEPT !.state = TRUE]
                         ELSE [w EXCEPT !.put = Append(w.put, c)]
        ELSE IF c \in vprintf_letters
        THEN [state |-> FALSE, put |-> w.put \o vprintf_text(c, w.ap[1]), ap |-> Tail(w.ap)]
        ELSE [w EXCEPT !.state = FALSE, !.put = w.put \o (IF c = "%" THEN <<c>> ELSE <<"%", c>>)]
  IN  FoldLeft(Step, [state |-> FALSE, put |-> <<>>, ap |-> ap], fmt).put

RECURSIVE printf(_, _, _)
printf(fmt, ap, letters) ==        \* kernel/printf.c and boot/printf.c
  IF fmt = <<>> \/ fmt = <<"%">> THEN <<>>
  ELSE IF fmt[1] # "%" THEN <<fmt[1]>> \o printf(Tail(fmt), ap, letters)
  ELSE IF fmt[2] \in letters
  THEN printf_text(fmt[2], ap[1]) \o printf(From(fmt, 3), Tail(ap), letters)
  ELSE (IF fmt[2] = "%" THEN <<"%">> ELSE <<"%", fmt[2]>>) \o printf(From(fmt, 3), ap, letters)

\* atoi() stops at the first character that is no digit.
atoi(s) ==
  LET stop == SelectInSeq(Append(s, "NUL"), LAMBDA c : c \notin Range(SubSeq(Figure, 1, 10)))
      Digit(c) == SelectInSeq(Figure, LAMBDA f : f = c) - 1
  IN  FoldLeft(LAMBDA n, c : (10 * n + Digit(c)) % 2^BITS, 0, SubSeq(s, 1, stop - 1))

(***************************************************************************)
(* grep's patterns.                                                        *)
(***************************************************************************)
CharAt(s, k) == IF k <= Len(s) THEN s[k] ELSE "NUL"

RECURSIVE matchhere(_, _), matchstar(_, _, _)
matchhere(re, text) ==
  IF re = <<>> THEN TRUE
  ELSE IF CharAt(re, 2) = "*" THEN matchstar(re[1], From(re, 3), text)
  ELSE IF re = <<"$">> THEN text = <<>>
  ELSE text # <<>> /\ re[1] \in {".", text[1]} /\ matchhere(Tail(re), Tail(text))
matchstar(c, re, text) ==
  \/ matchhere(re, text)
  \/ text # <<>> /\ c \in {".", text[1]} /\ matchstar(c, re, Tail(text))
match(re, text) ==
  IF CharAt(re, 1) = "^" THEN matchhere(Tail(re), text)
  ELSE \E k \in 1 .. Len(text) + 1 : matchhere(re, From(text, k))

(***************************************************************************)
(* The programs.  Each turn of their loops is a read() of what there is;   *)
(* read() fails only for a process that is killed and does not return.     *)
(***************************************************************************)
\* The whole lines in job.buf are printed if they match, the rest stays.
RECURSIVE GrepLines(_, _)
GrepLines(p, out) ==
  LET q == SelectInSeq(p, LAMBDA c : c = "NL")
      line == SubSeq(p, 1, q - 1)
  IN  IF q = 0 THEN [p |-> p, out |-> out]
      ELSE GrepLines(From(p, q + 1), IF match(job.pattern, line) THEN Append(out, line) ELSE out)

Pieces(room) == {n \in 1 .. Len(job.file) : n <= room}
Ended(room) == Pieces(room) = {}
Quit(code) == [job EXCEPT !.running = FALSE, !.code = code]
Finish == job' = Quit(0) /\ UNCHANGED mem
Zero == [l |-> 0, w |-> 0, c |-> 0, inword |-> FALSE]

\* main() closes the file and opens the next one, which may fail.
NextFile(out) ==
  /\ IF job.rest = <<>> THEN job' = [Quit(0) EXCEPT !.out = out]
     ELSE job' \in {[Quit(1) EXCEPT !.out = out],
                    [job EXCEPT !.file = Head(job.rest), !.rest = Tail(job.rest),
                                !.buf = <<>>, !.count = Zero, !.out = out]}
  /\ UNCHANGED mem

grep ==
  LET room == BUFSIZE - Len(job.buf) - 1 IN
  /\ job.program = "grep" /\ job.running
  /\ \/ Ended(room) /\ NextFile(job.out)
     \/ \E n \in Pieces(room) :
          LET w == GrepLines(job.buf \o SubSeq(job.file, 1, n), job.out) IN
          /\ job' = [job EXCEPT !.file = From(job.file, n + 1), !.buf = w.p, !.out = w.out]
          /\ UNCHANGED mem

\* lines, words and characters so far, and whether the last one was in a word
Counted(w, c) ==
  LET space == c \in {"NL", " "} IN
  [l |-> w.l + (IF c = "NL" THEN 1 ELSE 0), c |-> w.c + 1, inword |-> ~space,
   w |-> w.w + (IF ~space /\ ~w.inword THEN 1 ELSE 0)]
wc ==
  /\ job.program = "wc" /\ job.running
  /\ \/ Ended(BUFSIZE) /\ NextFile(Append(job.out, job.count))
     \/ \E n \in Pieces(BUFSIZE) :
          /\ job' = [job EXCEPT !.file = From(job.file, n + 1),
                                !.count = FoldLeft(Counted, job.count, SubSeq(job.file, 1, n))]
          /\ UNCHANGED mem

cat ==                             \* write() may take less than it is given
  /\ job.program = "cat" /\ job.running
  /\ \/ Ended(BUFSIZE) /\ NextFile(job.out)
     \/ \E n \in Pieces(BUFSIZE), k \in 0 .. BUFSIZE :
          LET put == Append(job.out, SubSeq(job.file, 1, k)) IN
          /\ k <= n
          /\ job' = IF k # n THEN [Quit(1) EXCEPT !.out = put]
                    ELSE [job EXCEPT !.file = From(job.file, n + 1), !.out = put]
          /\ UNCHANGED mem

gets ==                            \* one call: it reads a character at a time
  LET nl == SelectInSeq(job.file, LAMBDA c : c = "NL")
      limit == IF Len(job.file) < BUFSIZE - 1 THEN Len(job.file) ELSE BUFSIZE - 1
      n == IF nl \in 1 .. limit THEN nl ELSE limit
  IN  /\ job.program = "gets" /\ job.running
      /\ IF n = 0 THEN Finish
         ELSE /\ job' = [job EXCEPT !.file = From(job.file, n + 1),
                                    !.out = Append(job.out, SubSeq(job.file, 1, n))]
              /\ UNCHANGED mem

\* The C string in a name of DIRSIZ bytes, as namecmp() sees it.
NameOf(name) ==
  LET end == SelectInSeq(name, LAMBDA c : c = "NUL") IN IF end = 0 THEN name ELSE SubSeq(name, 1, end - 1)
element ==                         \* a turn of namex(): the next element, and if it is the last
  LET next == skipelem(job.file, job.buf) IN
  /\ job.program = "namex" /\ job.running
  /\ IF ~next.found THEN Finish
     ELSE /\ job' = [job EXCEPT !.file = next.path, !.buf = next.name,
                                !.out = Append(job.out, <<NameOf(next.name), next.path = <<>> >>)]
          /\ UNCHANGED mem

Printf ==
  LET fmt == FlattenSeq([k \in DOMAIN job.call |-> job.call[k].fmt])
      ap == FlattenSeq([k \in DOMAIN job.call |-> job.call[k].ap])
  IN  /\ job.program = "printf" /\ job.running
      /\ job' = [Quit(0) EXCEPT !.out = <<vprintf(fmt, ap), printf(fmt, ap, printf_letters),
                                          printf(fmt, ap, boot_letters)>>]
      /\ UNCHANGED mem

Move(d, s, n) ==
  /\ job.program = "strings" /\ d + n <= MEM /\ s + n <= MEM
  /\ mem' \in {memmove(mem, d, s, n), ulib_memmove(mem, d, s, n),
               strncpy(mem, d, s, n), safestrcpy(mem, d, s, n)}
  /\ UNCHANGED job

Job(program, files, pattern) ==
  [program |-> program, running |-> TRUE, code |-> 0, whole |-> files, file |-> Head(files),
   rest |-> Tail(files), pattern |-> pattern, call |-> <<>>, out |-> <<>>, count |-> Zero,
   buf |-> IF program = "namex" THEN [k \in 1 .. DIRSIZ |-> "?"] ELSE <<>>]
LibraryInit ==
  /\ job \in {Job("grep", <<file>>, re) : file \in Text, re \in Pattern}
               \cup {Job(program, <<file>>, <<>>) : program \in {"wc", "gets"}, file \in Text}
               \cup {Job(program, files, <<"a">>) : program \in {"cat", "grep", "wc"}, files \in Batch}
               \cup {Job("namex", <<path>>, <<>>) : path \in PathName}
               \cup {[Job("printf", << <<>> >>, <<>>) EXCEPT !.call = call] : call \in Call}
               \cup {Job("strings", << <<>> >>, <<>>)}
  /\ mem \in IF job.program = "strings" THEN [Cell -> Char] ELSE {[a \in Cell |-> "NUL"]}

LibraryNext ==
  \/ cat \/ grep \/ wc \/ gets \/ element \/ Printf
  \/ \E d, s \in Cell, n \in 0 .. MEM : Move(d, s, n)
LibrarySpec == LibraryInit /\ [][LibraryNext]_library

-----------------------------------------------------------------------------
\* The string at s as far as n characters.
String(s, n) ==
  LET ends == {k \in 0 .. n - 1 : s + k < MEM /\ mem[s + k] = "NUL"}
      size == IF ends = {} THEN n ELSE CHOOSE k \in ends : \A l \in ends : k <= l
  IN  [k \in 1 .. size |-> mem[s + k - 1]]
Placed(d, n, string) ==
  [a \in Cell |-> IF a \in d .. d + n - 1 THEN CharAt(string, a - d + 1) ELSE mem[a]]

HasEnd(s) == \E k \in s .. MEM - 1 : mem[k] = "NUL"

\* Both memmove()s move what was at the source before, however source and
\* destination overlap; strncpy() fills its n bytes, also with a name of just
\* that length, which strncmp() then still finds equal; safestrcpy() ends what
\* it copies and does not write behind its n bytes; what looks at a string sees
\* it up to its NUL, memcmp() also what comes behind.
StringsExact ==
  job.program = "strings" =>
  \A d, s \in Cell, n \in 0 .. MEM : d + n <= MEM /\ s + n <= MEM =>
    LET moved == Placed(d, n, [k \in 1 .. n |-> mem[s + k - 1]])
        copied == strncpy(mem, d, s, n)
        safe == safestrcpy(mem, d, s, n)
        kept == IF Len(String(s, n)) < n THEN Len(String(s, n)) ELSE n - 1
    IN  /\ memmove(mem, d, s, n) = moved /\ ulib_memmove(mem, d, s, n) = moved
        /\ strncmp(mem, d, s, n) = (String(d, n) = String(s, n))
        /\ memcmp(mem, d, s, n) = \A k \in 0 .. n - 1 : mem[d + k] = mem[s + k]
        /\ HasEnd(s) =>
             LET string == String(s, MEM)
                 size == Len(string)
             IN  /\ strlen(mem, s) = size
                 /\ HasEnd(d) => strcmp(mem, d, s) = (String(d, MEM) = string)
                 /\ \A c \in Char \ {"NUL"} : s # 0 =>
                      strchr(mem, s, c) = IF Contains(string, c)
                                          THEN s + SelectInSeq(string, LAMBDA x : x = c) - 1 ELSE 0
                 /\ d + size < s \/ (s + size < d /\ d + size < MEM) =>
                      strcpy(mem, d, s) = Placed(d, size + 1, string)
        /\ d + n <= s \/ s + n <= d =>
             /\ copied = Placed(d, n, String(s, n)) /\ strncmp(copied, d, s, n)
             /\ \A a \in Cell : a \notin d .. d + n - 1 => safe[a] = mem[a]
             /\ n > 0 => /\ \A k \in 1 .. kept : safe[d + k - 1] = String(s, n)[k]
                         /\ safe[d + kept] = "NUL"

\* What a pattern means: where in the text a match of re that begins at a place
\* in set can end.
RECURSIVE EndsOf(_, _, _)
EndsOf(re, text, set) ==
  IF re = <<>> THEN set
  ELSE IF CharAt(re, 2) = "*"
       THEN EndsOf(From(re, 3), text,
                 {j \in 0 .. Len(text) : \E i \in set : i <= j
                    /\ \A k \in i + 1 .. j : re[1] \in {".", text[k]}})
  ELSE IF re = <<"$">> THEN set \cap {Len(text)}
  ELSE EndsOf(Tail(re), text, {j \in 1 .. Len(text) : j - 1 \in set /\ re[1] \in {".", text[j]}})
Found(re, text) ==
  IF CharAt(re, 1) = "^" THEN EndsOf(Tail(re), text, {0}) # {}
  ELSE EndsOf(re, text, 0 .. Len(text)) # {}

\* The lines of a file that end in a newline, up to the first that does not
\* fit in the buffer with it.
RECURSIVE Lines(_)
Lines(file) ==
  LET q == SelectInSeq(file, LAMBDA c : c = "NL") IN
  IF q = 0 \/ q > BUFSIZE - 1 THEN <<>>
  ELSE <<SubSeq(file, 1, q - 1)>> \o Lines(From(file, q + 1))

\* The elements of a path name, none of them empty, as far as DIRSIZ characters,
\* and which of them is the last.
Elements(path) ==
  LET starts == SelectSeq([k \in DOMAIN path |-> k],
                  LAMBDA k : path[k] # "/" /\ (k = 1 \/ path[k - 1] = "/"))
      End(k) == CHOOSE j \in k .. Len(path) :
                  /\ \A i \in k .. j : path[i] # "/"
                  /\ j = Len(path) \/ path[j + 1] = "/" \/ j = k + DIRSIZ - 1
                  /\ j < k + DIRSIZ
  IN  [n \in DOMAIN starts |-> <<SubSeq(path, starts[n], End(starts[n])), n = Len(starts)>>]

\* However a file arrives in pieces, grep prints the lines that have the
\* pattern in them, in order, of those it can hold (it gives up silently at the
\* first that is too long, and never looks at a last line without newline), and
\* nothing of one file runs into the next; wc counts no word twice and none away;
\* cat leaves nothing out unless it fails; gets() loses no character; a path
\* comes apart into its elements, without the tail of a longer one before.
FiltersExact ==
  LET whole == job.whole
      Words(file) ==
        LET Word(k) == file[k] \notin {"NL", " "} IN
        Len(SelectSeq([k \in DOMAIN file |-> k], LAMBDA k : Word(k) /\ (k = 1 \/ ~Word(k - 1))))
      done == Len(whole) - Len(job.rest)   \* files that were opened
  IN
  ~job.running =>
  CASE job.program = "grep" ->
         job.out = FlattenSeq([f \in 1 .. done |->
                     SelectSeq(Lines(whole[f]), LAMBDA line : Found(job.pattern, line))])
    [] job.program = "wc" ->
         /\ Len(job.out) = done
         /\ \A f \in 1 .. done : job.out[f].c = Len(whole[f]) /\ job.out[f].w = Words(whole[f])
    [] job.program = "cat" ->
         /\ IsPrefix(FlattenSeq(job.out), FlattenSeq(whole))
         /\ job.code = 0 => FlattenSeq(job.out) = FlattenSeq(whole)
    [] job.program = "gets" ->
         /\ FlattenSeq(job.out) = whole[1]
         /\ \A k \in 1 .. Len(job.out) - 1 :
              Len(job.out[k]) = BUFSIZE - 1 \/ Last(job.out[k]) = "NL"
    [] job.program = "namex" -> job.out = Elements(whole[1])
    [] OTHER -> TRUE

\* What a part of a call means to a printf() that knows letters: a lone % at the
\* end of the format means nothing.
Meaning(part, letters, Of(_, _)) ==
  CASE part.fmt = <<"%">> -> <<>>
    [] Len(part.fmt) = 1 /\ part.fmt # <<"%">> -> part.fmt
    [] Len(part.fmt) = 2 /\ part.fmt[2] \in letters -> Of(part.fmt[2], part.ap[1])
    [] Len(part.fmt) = 2 /\ part.fmt[2] \notin letters ->
         IF part.fmt[2] = "%" THEN <<"%">> ELSE part.fmt

\* Each of the three printf()s shows every part of a call as it shows the part
\* alone, with the argument that belongs to it, whatever characters the strings
\* it puts are made of; a number with %d is read back, the least one included.
PrintfExact ==
  job.program = "printf" /\ ~job.running =>
    LET Shown(letters, Of(_, _)) ==
          FlattenSeq([k \in DOMAIN job.call |-> Meaning(job.call[k], letters, Of)])
        Known(k, letters) == job.call[k].ap # <<>> => job.call[k].fmt[2] \in letters
        Fits(letters) == \A k \in DOMAIN job.call : Known(k, letters)
        number == job.call[1].ap[1]
        shown == job.out[1]
    IN  /\ Fits(vprintf_letters) => job.out[1] = Shown(vprintf_letters, vprintf_text)
        /\ Fits(printf_letters) => job.out[2] = Shown(printf_letters, printf_text)
        /\ Fits(boot_letters) => job.out[3] = Shown(boot_letters, printf_text)
        /\ Len(job.call) = 1 /\ job.call[1].fmt = <<"%", "d">> =>
             /\ job.out = <<shown, shown, shown>>
             /\ IF number < 0 THEN Head(shown) = "-" /\ atoi(Tail(shown)) = 0 - number
                ELSE atoi(shown) = number /\ (Head(shown) = "0" => number = 0)
=============================================================================
