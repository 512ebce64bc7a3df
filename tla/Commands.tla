------------------------------ MODULE Commands ------------------------------
(***************************************************************************)
(* argv2cmd of build.lua, which makes one string of the arguments and the  *)
(* directory of a program.  The string is the key of the program's record  *)
(* in .deps.lua, so two programs with the same key share a record, and one *)
(* of them may be left out because the other has run.                      *)
(*                                                                         *)
(* A string is a sequence of characters; cd and && count as one.           *)
(***************************************************************************)
EXTENDS Naturals, Sequences, SequencesExt

CONSTANT MaxCommand            \* bound: characters and separations of the arguments
ASSUME CommandsAssumption == MaxCommand \in Nat

VARIABLES dirsep,   \* the directory separator: a backslash on Windows
          rundir,   \* <<>>, or <<d>> if the program is to run in the directory d
          argv      \* the arguments, the program first
cmdvars == <<dirsep, rundir, argv>>

Quote == "\""
Backslash == "\\"
White == {" ", "tab", "cr"}
Char == White \cup {"x", Quote, Backslash}

a2c_pattern == White \cup {Quote} \cup (IF dirsep = Backslash THEN {} ELSE {Backslash})
a2c_repl(c) ==
    CASE c \notin a2c_pattern -> <<c>>
      [] c \in {Quote, Backslash} \cap a2c_pattern -> <<Backslash, c>>
      [] c = "cr" -> <<>>
      [] OTHER -> <<" ">>
gsub(a) == FlattenSeq([i \in DOMAIN a |-> a2c_repl(a[i])])

\* Quotes are put around arguments with white space only.
argWhite(a) == IF Range(a) \cap White = {} THEN a ELSE <<Quote>> \o gsub(a) \o <<Quote>>

arg(a) == IF Range(a) \cap a2c_pattern = {} THEN a ELSE <<Quote>> \o gsub(a) \o <<Quote>>

argv2cmd ==
    FlattenSeq([i \in DOMAIN rundir |-> <<"cd", " ">> \o arg(rundir[i]) \o <<" ", "&&", " ">>])
      \o FlattenSeq([i \in DOMAIN argv |-> IF i < Len(argv) THEN Append(arg(argv[i]), " ") ELSE arg(argv[i])])

CommandInit == dirsep \in {"/", Backslash} /\ rundir \in {<<>>, <<<<"x">>>>, <<<<" ", "x">>>>} /\ argv = <<<<>>>>

\* A make file may give a program any arguments.
Longer(c) == argv' = [argv EXCEPT ![Len(argv)] = Append(@, c)]
Another   == argv' = Append(argv, <<>>)
CommandNext ==
    /\ Len(argv) + Len(FlattenSeq(argv)) <= MaxCommand
    /\ Another \/ \E c \in Char : Longer(c)
    /\ UNCHANGED <<dirsep, rundir>>

CommandSpec == CommandInit /\ [][CommandNext]_cmdvars
-----------------------------------------------------------------------------
(* A reader that takes a key apart again: the arguments, whether it is between
   quotes, and whether the last character was a backslash there. *)
Reader(args, quoted, escape) == [args |-> args, quoted |-> quoted, escape |-> escape]
Extend(args, c) == [args EXCEPT ![Len(args)] = Append(@, c)]
Plain(r, c) ==
    CASE c = Quote -> Reader(r.args, ~r.quoted, FALSE)
      [] c = Backslash /\ r.quoted -> Reader(r.args, TRUE, TRUE)
      [] c = " " /\ ~r.quoted -> Reader(Append(r.args, <<>>), FALSE, FALSE)
      [] OTHER -> Reader(Extend(r.args, c), r.quoted, FALSE)
ReadChar(r, c) ==
    IF ~r.escape THEN Plain(r, c)
    ELSE IF c = Quote \/ (c = Backslash /\ dirsep # Backslash)
         THEN Reader(Extend(r.args, c), r.quoted, FALSE)
         ELSE Plain(Reader(Extend(r.args, Backslash), r.quoted, FALSE), c)
ReadChars(r, s) ==
    LET read[k \in 0..Len(s)] == IF k = 0 THEN r ELSE ReadChar(read[k - 1], s[k])
    IN  read[Len(s)]
ReadKey(key) == ReadChars(Reader(<<<<>>>>, FALSE, FALSE), key).args

\* What a key cannot show: kinds of white space, and carriage returns.
Seen(a) == FlattenSeq([i \in DOMAIN a |-> IF a[i] = "cr" THEN <<>> ELSE IF a[i] = "tab" THEN <<" ">> ELSE <<a[i]>>])
SeenAll(args) == [i \in DOMAIN args |-> Seen(args[i])]

\* On Windows a backslash at the end of an argument in quotes is written like the
\* one that escapes a quote.
Doubtful(a) == /\ dirsep = Backslash /\ Range(a) \cap a2c_pattern # {}
               /\ Seen(a) # <<>> /\ Last(Seen(a)) = Backslash

\* The key of a record (argv2cmd) tells programs apart: the directory and the list
\* of arguments can be read off it, but for the kind of white space and, on
\* Windows, backslashes at the end of an argument in quotes.
KeyTellsApart ==
    (\A i \in DOMAIN argv : ~Doubtful(argv[i])) =>
        ReadKey(argv2cmd) = (IF rundir = <<>> THEN <<>> ELSE <<<<"cd">>, Seen(rundir[1]), <<"&&">>>>) \o SeenAll(argv)
=============================================================================
