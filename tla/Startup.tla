------------------------------- MODULE Startup -------------------------------
(***************************************************************************)
(* How main.rs comes to a slot: the command line, the backend it names or  *)
(* the default, and what each backend needs to be built.                   *)
(*                                                                         *)
(* "gpu", "7" and "path" stand for the accelerators, the numbers and the   *)
(* other words a command line may hold.                                    *)
(***************************************************************************)
EXTENDS Integers, Sequences, SequencesExt

Backend == {"llama-cpp", "litert-lm", "subprocess", "stub"}
Number  == {"7"}
Accel   == {"gpu"}

(* Flags that take the next word, if there is one ... *)
OptionalFlags == {"--socket", "--model", "--llama-bin"}
(* ... that insist on one ... *)
ValueFlags    == {"--backend", "--litertlm-accel", "--max-tokens"}
(* ... and that take none *)
Switches      == {"--litertlm-no-system-prompt"}

Words == OptionalFlags \cup ValueFlags \cup Switches \cup Backend \cup Number \cup Accel \cup {"path"}

(* BackendKind::parse, and str::parse::<usize> *)
Accepts(flag, v) ==
  CASE flag = "--backend"    -> v \in Backend
    [] flag = "--max-tokens" -> v \in Number
    [] OTHER                 -> TRUE

-----------------------------------------------------------------------------
None == ""

(* args.next(): the word behind i, if there is one *)
NextWord(argv, i) == IF i < Len(argv) THEN argv[i + 1] ELSE None

(* The flag at i takes the next word *)
TakesNext(argv, i) ==
  \/ argv[i] \in OptionalFlags
  \/ argv[i] \in ValueFlags /\ NextWord(argv, i) # None /\ Accepts(argv[i], NextWord(argv, i))

Setting(flag, value) == [flag |-> flag, value |-> value]

(* The words of the command line as settings, in order; an error ends them  *)
Settings(argv) ==
  LET from[i \in 1..(Len(argv) + 2)] ==
        IF i > Len(argv) THEN <<>>
        ELSE IF TakesNext(argv, i) THEN <<Setting(argv[i], NextWord(argv, i))>> \o from[i + 2]
        ELSE IF argv[i] \in Switches THEN from[i + 1]
        ELSE <<Setting("error", None)>>
  IN  from[1]

(* The last word counts *)
Value(argv, flag, default) ==
  LET places == {i \in DOMAIN Settings(argv) : Settings(argv)[i].flag = flag}
  IN  IF places = {} THEN default ELSE Settings(argv)[Max(places)].value

ParsesArgs(argv) ==
  /\ \A i \in DOMAIN Settings(argv) : Settings(argv)[i].flag # "error"
  /\ Value(argv, "--socket", None) # None

ParseArgs(argv) ==
  [backend |-> Value(argv, "--backend", None),
   model   |-> Value(argv, "--model", None),
   bin     |-> Value(argv, "--llama-bin", None),
   accel   |-> Value(argv, "--litertlm-accel", "gpu")]

(* Mutant: an in-process backend whenever one is compiled in *)
DefaultBackend_Unconditional(args, features) ==
  IF "litert-lm" \in features THEN "litert-lm"
  ELSE IF "llama-cpp" \in features THEN "llama-cpp"
  ELSE IF args.bin # None /\ args.model # None THEN "subprocess"
  ELSE "stub"

DefaultBackend(args, features) ==
  IF "litert-lm" \in features /\ args.model # None THEN "litert-lm"
  ELSE IF "llama-cpp" \in features /\ args.model # None THEN "llama-cpp"
  ELSE IF args.bin # None /\ args.model # None THEN "subprocess"
  ELSE "stub"

ChosenBackend(args, features) ==
  IF args.backend # None THEN args.backend ELSE DefaultBackend(args, features)

(* build_slot, up to loading the model: "" or why it fails *)
BuildError(kind, args, features) ==
  CASE kind = "llama-cpp" ->
         IF kind \notin features THEN "feature" ELSE IF args.model = None THEN "missing" ELSE ""
    [] kind = "litert-lm" ->
         IF kind \notin features THEN "feature"
         ELSE IF args.model = None THEN "missing"
         ELSE IF args.accel \notin Accel THEN "accel" ELSE ""
    [] kind = "subprocess" -> IF args.bin = None \/ args.model = None THEN "missing" ELSE ""
    [] kind = "stub" -> ""

=============================================================================
