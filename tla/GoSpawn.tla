------------------------------- MODULE GoSpawn -------------------------------
(***************************************************************************)
(* What spawn() hands to a new process (GoRoutineProcessNative.h): on      *)
(* Windows a command line in which every argument is quoted                *)
(* (dd_windows_command_line), elsewhere an environment with the caller's   *)
(* overrides (dd_child_environment).                                       *)
(*                                                                         *)
(* A behaviour grows an argv a character at a time, or overrides an        *)
(* environment a key at a time, in any order, as hv_iternext may give      *)
(* them.  Text is a sequence of characters, here the ones that matter.     *)
(* Undefined, referenced and NUL-bearing text is refused before, and is    *)
(* left out.                                                               *)
(***************************************************************************)
EXTENDS Integers, Sequences, SequencesExt

CONSTANTS
  MaxText,    \* bound on the characters of all arguments
  MaxArgs,    \* bound on the arguments after the program
  Symbols,    \* the characters of environments, '=' among them
  Environs,   \* environments of the parent: sequences of assignments
  Overrides   \* functions from keys to values

VARIABLES
  what,         \* what the behaviour is about: "argv" or "env"
  argv,         \* the arguments after the program
  environ, overrides,
  result, left  \* the child's environment so far, and the keys still to come

spawnVars == <<what, argv, environ, overrides, result, left>>

\* A key that is empty or has a '=' in it is refused.
ASSUME SpawnAssumption ==
  /\ "=" \in Symbols /\ Environs \subseteq Seq(Seq(Symbols))
  /\ \A o \in Overrides : \A key \in DOMAIN o :
       /\ key \in Seq(Symbols) /\ key # <<>> /\ \A i \in DOMAIN key : key[i] # "="
       /\ o[key] \in Seq(Symbols)

Letter == "a"
Space == " "
Slash == "\\"
Quote == "\""
Chars == {Letter, Space, Slash, Quote}

Slashes(n) == [i \in 1 .. n |-> Slash]

-----------------------------------------------------------------------------
(* The command line *)

NeedsQuotes(arg) == arg = <<>> \/ \E i \in DOMAIN arg : arg[i] \in {Space, Quote}

QuoteChar_Single(st, c) ==
  CASE c = Slash -> [st EXCEPT !.slashes = @ + 1]
    [] c = Quote -> [out |-> st.out \o Slashes(st.slashes + 1) \o <<Quote>>,
                     slashes |-> 0]
    [] OTHER -> [out |-> st.out \o Slashes(st.slashes) \o <<c>>, slashes |-> 0]

\* One character of an argument: out is the text so far, slashes the number
\* of backslashes read and not yet written.
QuoteChar(st, c) ==
  CASE c = Slash -> [st EXCEPT !.slashes = @ + 1]
    [] c = Quote -> [out |-> st.out \o Slashes(2 * st.slashes + 1) \o <<Quote>>,
                     slashes |-> 0]
    [] OTHER -> [out |-> st.out \o Slashes(st.slashes) \o <<c>>, slashes |-> 0]

Quoted(arg) ==
  LET after[i \in 0 .. Len(arg)] ==
        IF i = 0 THEN [out |-> <<>>, slashes |-> 0] ELSE QuoteChar(after[i - 1], arg[i])
      st == after[Len(arg)]
  IN  IF NeedsQuotes(arg)
        THEN <<Quote>> \o st.out \o Slashes(2 * st.slashes) \o <<Quote>>
        ELSE st.out \o Slashes(st.slashes)

\* The program is a name without quotes; it comes first.
dd_windows_command_line ==
  LET line[i \in 0 .. Len(argv)] ==
        IF i = 0 THEN <<Letter>> ELSE line[i - 1] \o <<Space>> \o Quoted(argv[i])
  IN  line[Len(argv)]

\* How the C runtime of the child reads it (external): backslashes are
\* themselves unless they precede a quote, where two stand for one and an odd
\* one makes the quote literal.
ReadChar(st, c) ==
  LET flushed == st.word \o Slashes(st.slashes)
      halved == st.word \o Slashes(st.slashes \div 2)
  IN  CASE c = Slash -> [st EXCEPT !.slashes = @ + 1, !.any = TRUE]
        [] c = Quote /\ st.slashes % 2 = 1 ->
             [st EXCEPT !.word = Append(halved, Quote), !.slashes = 0, !.any = TRUE]
        [] c = Quote /\ st.slashes % 2 = 0 ->
             [st EXCEPT !.word = halved, !.slashes = 0, !.inside = ~@, !.any = TRUE]
        [] c = Space /\ ~st.inside ->
             [words |-> IF st.any THEN Append(st.words, flushed) ELSE st.words,
              word |-> <<>>, slashes |-> 0, inside |-> FALSE, any |-> FALSE]
        [] OTHER -> [st EXCEPT !.word = Append(flushed, c), !.slashes = 0, !.any = TRUE]

CommandLineToArgv(line) ==
  LET text == Append(line, Space)
      after[i \in 0 .. Len(text)] ==
        IF i = 0
          THEN [words |-> <<>>, word |-> <<>>, slashes |-> 0, inside |-> FALSE, any |-> FALSE]
          ELSE ReadChar(after[i - 1], text[i])
  IN  after[Len(text)].words

-----------------------------------------------------------------------------
(* The environment *)

Assigned(key, v) == key \o <<"=">> \o v

Assigns_Prefix(entry, key) ==
  /\ Len(entry) > Len(key)
  /\ SubSeq(entry, 1, Len(key)) = key

\* strncmp of the key and the '=' after it.
Assigns(entry, key) ==
  /\ Len(entry) > Len(key)
  /\ SubSeq(entry, 1, Len(key)) = key
  /\ entry[Len(key) + 1] = "="

Assignments(env, key) == {i \in DOMAIN env : Assigns(env[i], key)}

\* One turn of the loop: the first assignment of the key is replaced, or one
\* is added at the end.
Override(key) ==
  LET new == Assigned(key, overrides[key])
      at == Assignments(result, key)
      first == CHOOSE i \in at : \A j \in at : i <= j
  IN  /\ what = "env" /\ key \in left
      /\ result' = IF at = {} THEN Append(result, new) ELSE [result EXCEPT ![first] = new]
      /\ left' = left \ {key}
      /\ UNCHANGED <<what, argv, environ, overrides>>

-----------------------------------------------------------------------------
SpawnInit ==
  /\ what \in {"argv", "env"}
  /\ argv = <<>>
  /\ environ \in Environs /\ overrides \in Overrides
  /\ what = "argv" => /\ environ = CHOOSE e \in Environs : TRUE
                      /\ overrides = CHOOSE o \in Overrides : TRUE
  /\ result = environ /\ left = DOMAIN overrides

NewArg ==
  /\ what = "argv" /\ Len(argv) < MaxArgs
  /\ argv' = Append(argv, <<>>)
  /\ UNCHANGED <<what, environ, overrides, result, left>>

NewChar(c) ==
  /\ what = "argv" /\ argv # <<>> /\ Len(FlattenSeq(argv)) < MaxText
  /\ argv' = [argv EXCEPT ![Len(argv)] = Append(@, c)]
  /\ UNCHANGED <<what, environ, overrides, result, left>>

SpawnNext ==
  \/ NewArg
  \/ \E c \in Chars : NewChar(c)
  \/ \E key \in DOMAIN overrides : Override(key)

SpawnSpec == SpawnInit /\ [][SpawnNext]_spawnVars

-----------------------------------------------------------------------------
\* The arguments: exactly those given, whatever backslashes, quotes and blanks are
\* in them and wherever they meet.
ArgvSurvives == CommandLineToArgv(dd_windows_command_line) = <<<<Letter>>>> \o argv

\* The environment: what getenv finds for an overridden key, the first assignment
\* of it, is the caller's, and the key is assigned where the parent assigned it, or
\* at one place if the parent did not; every other assignment is the parent's and
\* in its place, however the keys resemble each other.
EnvironmentExact ==
  what = "env" /\ left = {} =>
    /\ \A key \in DOMAIN overrides :
         LET at == Assignments(result, key)
             was == Assignments(environ, key)
         IN  /\ \E i \in at : /\ result[i] = Assigned(key, overrides[key])
                             /\ \A j \in at : i <= j
             /\ at = was \/ (was = {} /\ \E i \in at : at = {i})
    /\ \A i \in DOMAIN environ :
         (\A key \in DOMAIN overrides : ~Assigns(environ[i], key)) =>
           i \in DOMAIN result /\ result[i] = environ[i]

\* What a process is given is what it was to be given.
ChildReceives == ArgvSurvives /\ EnvironmentExact
=============================================================================
