---------------------------- MODULE StartupProofs ---------------------------
(***************************************************************************)
(* What module Startup promises, for all command lines and all files.      *)
(***************************************************************************)
EXTENDS Startup, RiskEvaluatorProofs

(* The equation that says which arguments are flags has a solution for     *)
(* every command line, so IsFlag is one.                                   *)
FlagAt(F, k, argv, operands) ==
  \/ k = 1
  \/ F[k - 1] /\ argv[k - 1] \notin operands
  \/ k > 2 /\ ~F[k - 1]

Solution(F, n, argv, operands) == F = [k \in 1..n |-> FlagAt(F, k, argv, operands)]

LEMMA FlagsExist ==
  ASSUME NEW argv, NEW operands, NEW n \in Nat
  PROVE  \E F : Solution(F, n, argv, operands)
<1> USE DEF Solution
<1> DEFINE P == {m \in Nat : \E F : F = [k \in 1..m |-> FlagAt(F, k, argv, operands)]}
<1>1. 0 \in P
  <2>1. \A F : [k \in {} |-> TRUE] = [k \in 1..0 |-> FlagAt(F, k, argv, operands)]
    OBVIOUS
  <2> QED BY <2>1
<1>2. ASSUME NEW m \in P PROVE m + 1 \in P
  <2>1. m \in Nat
    OBVIOUS
  <2>2. PICK F : F = [k \in 1..m |-> FlagAt(F, k, argv, operands)]
    OBVIOUS
  <2> DEFINE G == [k \in 1..(m + 1) |-> FlagAt(F, k, argv, operands)]
  <2>3. \A k \in 1..m : G[k] = F[k]
    BY <2>1, <2>2
  <2>4. \A k \in 1..(m + 1) : k # 1 => k - 1 \in 1..m
    BY <2>1
  <2>5. \A k \in 1..(m + 1) : FlagAt(F, k, argv, operands) = FlagAt(G, k, argv, operands)
    <3> HIDE DEF G
    <3> QED BY <2>3, <2>4 DEF FlagAt
  <2>6. G = [k \in 1..(m + 1) |-> FlagAt(G, k, argv, operands)]
    BY <2>5
  <2> HIDE DEF G
  <2> QED BY <2>1, <2>6
<1>3. P = Nat
  <2> HIDE DEF P
  <2>1. P \in SUBSET Nat
    BY DEF P
  <2> QED BY <1>1, <1>2, <2>1, Induction
<1> QED BY <1>3

LEMMA IsFlagAt ==
  ASSUME NEW n \in Nat, n = Len(input.argv)
  PROVE  Solution(IsFlag, n, input.argv, Operands)
<1>1. PICK F : Solution(F, n, input.argv, Operands)
  BY FlagsExist
<1> QED BY <1>1 DEF IsFlag, FlagAt, Solution
-----------------------------------------------------------------------------
(* The command line.  The flags of a program, and the positions of flags.  *)
LEMMA FlagSets ==
  ASSUME input \in Inputs
  PROVE  /\ input.program \in {"agent", "fanotify"} /\ input.argv \in Seq(STRING)
         /\ Len(input.argv) \in Nat
         /\ Operands \intersect Given = {} /\ "--help" \notin Flags
         /\ "--reset-db" \in Given /\ "--db" \in Operands
         /\ Given \subseteq {"--reset-db", "--upload"}
         /\ "--inspect-pid" \in Operands => Defaults[input.program]["--inspect-pid"] = NoValue
<1>1. input.program \in {"agent", "fanotify"} /\ input.argv \in Seq(STRING)
  BY InputsAreTexts DEF Defaults
<1>2. Given \subseteq {"--reset-db", "--upload"} /\ "--reset-db" \in Given
  BY <1>1 DEF Given, Switches
<1>3. CASE input.program = "agent"
  BY <1>1, <1>2, <1>3 DEF Operands, Defaults, Flags
<1>4. CASE input.program = "fanotify"
  BY <1>1, <1>2, <1>4 DEF Operands, Defaults, Flags
<1> QED BY <1>1, <1>3, <1>4

(* The argument after a flag is its operand or the next flag; the argument *)
(* after an operand is a flag.                                             *)
LEMMA NextFlag ==
  ASSUME input \in Inputs, NEW k \in 1..Len(input.argv), IsFlag[k]
  PROVE  /\ k + 1 <= Len(input.argv) =>
              (IsFlag[k + 1] <=> input.argv[k] \notin Operands)
         /\ (k + 2 <= Len(input.argv) /\ input.argv[k] \in Operands) => IsFlag[k + 2]
<1>1. PICK n \in Nat : n = Len(input.argv)
  BY FlagSets
<1>2. PICK F : F = IsFlag /\ F = [j \in 1..n |-> FlagAt(F, j, input.argv, Operands)]
  BY <1>1, IsFlagAt DEF Solution
<1>3. \A j \in 1..n : F[j] = FlagAt(F, j, input.argv, Operands)
  BY <1>2
<1>4. F[k]
  BY <1>2
<1>5. k + 1 <= n => (F[k + 1] <=> input.argv[k] \notin Operands)
  <2>1. k + 1 <= n => k + 1 \in 1..n /\ (k + 1) - 1 = k /\ k + 1 # 1
    BY <1>1
  <2>2. k + 1 <= n => F[k + 1] = FlagAt(F, k + 1, input.argv, Operands)
    BY <1>3, <2>1
  <2> QED BY <1>4, <2>1, <2>2 DEF FlagAt
<1>6. k + 2 <= n => (~F[k + 1] => F[k + 2])
  <2>1. k + 2 <= n => k + 2 \in 1..n /\ (k + 2) - 1 = k + 1 /\ k + 2 > 2
    BY <1>1
  <2>2. k + 2 <= n => F[k + 2] = FlagAt(F, k + 2, input.argv, Operands)
    BY <1>3, <2>1
  <2> QED BY <2>1, <2>2 DEF FlagAt
<1>7. k + 2 <= n => k + 1 <= n
  BY <1>1
<1> QED BY <1>1, <1>2, <1>5, <1>6, <1>7

LEMMA FirstFlag ==
  ASSUME input \in Inputs, Len(input.argv) > 0
  PROVE  IsFlag[1]
<1>1. PICK n \in Nat : n = Len(input.argv)
  BY FlagSets
<1> QED BY <1>1, IsFlagAt DEF Solution, FlagAt

LEMMA LastPlace ==
  ASSUME NEW n \in Nat, NEW S \in SUBSET (1..n)
  PROVE  Max(S \union {n + 1}) = n + 1
<1> DEFINE IsLast(x) == x \in S \union {n + 1} /\ \A y \in S \union {n + 1} : x >= y
<1>1. IsLast(n + 1)
  OBVIOUS
<1>2. \A x : IsLast(x) => x = n + 1
  OBVIOUS
<1>3. Max(S \union {n + 1}) = CHOOSE x \in S \union {n + 1} : \A y \in S \union {n + 1} : x >= y
  BY DEF Max
<1>4. (CHOOSE x \in S \union {n + 1} : \A y \in S \union {n + 1} : x >= y) = n + 1
  BY <1>1, <1>2
<1> QED BY <1>3, <1>4

(* Consuming a flag, with its operand or without one, adds its position.   *)
LEMMA PlaceAdded ==
  ASSUME input \in Inputs, input' = input, arg_index \in 0..Len(input.argv),
         HasArg, IsFlag[arg_index + 1],
         arg_index' = IF Arg \in Operands THEN arg_index + 2 ELSE arg_index + 1,
         arg_index' <= Len(input.argv), NEW flag
  PROVE  Places(flag)' = IF flag = Arg THEN Places(flag) \union {arg_index + 1}
                         ELSE Places(flag)
<1>1. PICK n \in Nat, k \in Nat : n = Len(input.argv) /\ k = arg_index + 1 /\ k \in 1..n
  BY FlagSets DEF HasArg
<1>2. IsFlag' = IsFlag
  BY DEF IsFlag, Operands
<1>3. Places(flag)' = {j \in 1..arg_index' : IsFlag[j] /\ input.argv[j] = flag}
  BY <1>2 DEF Places
<1>4. Arg = input.argv[k] /\ IsFlag[k] /\ 1..arg_index = 1..(k - 1)
  BY <1>1 DEF Arg
<1>5. 1..k = 1..(k - 1) \union {k}
  BY <1>1
<1>6. CASE Arg \notin Operands
  <2>1. arg_index' = k
    BY <1>1, <1>6
  <2> QED BY <1>1, <1>3, <1>4, <1>5, <2>1 DEF Places
<1>7. CASE Arg \in Operands
  <2>1. arg_index' = k + 1 /\ 1..(k + 1) = 1..(k - 1) \union {k, k + 1} /\ k + 1 <= n
    BY <1>1, <1>7
  <2>2. ~IsFlag[k + 1]
    BY <1>1, <1>4, <1>7, <2>1, NextFlag
  <2> QED BY <1>1, <1>3, <1>4, <2>1, <2>2 DEF Places
<1> QED BY <1>6, <1>7

(* While the arguments are read, the next one is a flag, and the options   *)
(* are what those before it say.                                           *)
ArgsInv ==
  /\ input \in Inputs /\ arg_index \in 0..Len(input.argv)
  /\ options = [f \in Flags |-> options[f]]
  /\ OptionsAreMeant
  /\ \A flag \in Operands \intersect Numeric : Places(flag) # {} => options[flag] \in Int
  /\ HasArg => IsFlag[arg_index + 1]

(* Reading a flag, with its operand or without one.                        *)
LEMMA FlagRead ==
  ASSUME ArgsInv, HasArg, Arg \in Flags, NEW value,
         value = IF Arg \in Given THEN TRUE ELSE Operand(Arg, input.argv[arg_index + 2]),
         Arg \in Operands \intersect Numeric => value \in Int,
         options' = [options EXCEPT ![Arg] = value], input' = input,
         arg_index' = IF Arg \in Operands THEN arg_index + 2 ELSE arg_index + 1,
         arg_index' <= Len(input.argv)
  PROVE  ArgsInv'
<1>1. PICK n \in Nat, k \in Nat : n = Len(input.argv) /\ k = arg_index + 1 /\ k \in 1..n
  BY FlagSets DEF HasArg, ArgsInv
<1>2. input \in Inputs /\ arg_index \in 0..Len(input.argv) /\ IsFlag[arg_index + 1]
  BY DEF ArgsInv
<1>3. \A flag : Places(flag)' = IF flag = Arg THEN Places(flag) \union {k} ELSE Places(flag)
  BY <1>1, <1>2, PlaceAdded
<1>4. /\ Operands' = Operands /\ Given' = Given /\ Flags' = Flags /\ IsFlag' = IsFlag
      /\ input'.argv = input.argv /\ input'.program = input.program
  BY DEF Operands, Given, Flags, IsFlag
<1>5. /\ options' = [f \in Flags |-> options'[f]] /\ options'[Arg] = value
      /\ \A f \in Flags \ {Arg} : options'[f] = options[f]
  BY DEF ArgsInv
<1>6. arg_index' \in 0..Len(input.argv)
  BY <1>1, <1>2
<1>7. \A flag \in Flags : options'[flag] =
        IF flag \in Given THEN Places(flag)' # {}
        ELSE IF Places(flag)' = {} THEN Defaults[input.program][flag]
        ELSE Operand(flag, input.argv[Max(Places(flag)') + 1])
  <2> SUFFICES ASSUME NEW flag \in Flags
               PROVE  options'[flag] =
                        IF flag \in Given THEN Places(flag)' # {}
                        ELSE IF Places(flag)' = {} THEN Defaults[input.program][flag]
                        ELSE Operand(flag, input.argv[Max(Places(flag)') + 1])
    OBVIOUS
  <2>1. CASE flag # Arg
    <3>1. options[flag] =
            IF flag \in Given THEN Places(flag) # {}
            ELSE IF Places(flag) = {} THEN Defaults[input.program][flag]
            ELSE Operand(flag, input.argv[Max(Places(flag)) + 1])
      BY DEF ArgsInv, OptionsAreMeant
    <3>2. Places(flag)' = Places(flag) /\ options'[flag] = options[flag]
      BY <1>3, <1>5, <2>1
    <3> QED BY <3>1, <3>2, Zenon
  <2>2. CASE flag = Arg
    <3>1. PICK S : S = Places(flag)' /\ S = Places(flag) \union {k} /\ S # {}
      BY <1>3, <2>2
    <3>2. Places(flag) \in SUBSET (1..(k - 1)) /\ k - 1 \in Nat /\ (k - 1) + 1 = k
      <4>1. k - 1 \in Nat /\ (k - 1) + 1 = k /\ arg_index = k - 1
        BY <1>1, <1>2
      <4> QED BY <4>1 DEF Places
    <3>3. Max(S) = k
      <4>1. Max(Places(flag) \union {(k - 1) + 1}) = (k - 1) + 1
        BY <3>2, LastPlace
      <4> QED BY <3>1, <3>2, <4>1, Zenon
    <3>4. k + 1 = arg_index + 2
      BY <1>1, <1>2
    <3>5. options'[flag] = IF flag \in Given THEN TRUE ELSE Operand(flag, input.argv[k + 1])
      BY <1>5, <2>2, <3>4, Zenon
    <3> QED BY <3>1, <3>3, <3>5, Zenon
  <2> QED BY <2>1, <2>2
<1>8. OptionsAreMeant'
  BY <1>4, <1>7 DEF OptionsAreMeant
<1>9. \A flag \in Operands \intersect Numeric : Places(flag)' # {} => options'[flag] \in Int
  BY <1>3, <1>5 DEF ArgsInv, Flags
<1>10. HasArg' => IsFlag'[arg_index' + 1]
  <2>1. Arg = input.argv[k] /\ IsFlag[k]
    BY <1>1, <1>2 DEF Arg
  <2>2. (arg_index' < n /\ Arg \notin Operands) => IsFlag[k + 1] /\ arg_index' + 1 = k + 1
    BY <1>1, <1>2, <2>1, NextFlag
  <2>3. (arg_index' < n /\ Arg \in Operands) => IsFlag[k + 2] /\ arg_index' + 1 = k + 2
    BY <1>1, <1>2, <2>1, NextFlag
  <2> QED BY <1>1, <1>4, <2>2, <2>3 DEF HasArg
<1> QED BY <1>2, <1>4, <1>5, <1>6, <1>8, <1>9, <1>10 DEF ArgsInv

(* A step that reads no flag.                                              *)
LEMMA ArgsKept ==
  ASSUME ArgsInv, UNCHANGED <<input, arg_index, options>>, stage' = "args" => stage = "args"
  PROVE  ArgsInv'
<1>1. /\ Operands' = Operands /\ Given' = Given /\ Flags' = Flags /\ IsFlag' = IsFlag
      /\ input'.argv = input.argv /\ input'.program = input.program
  BY DEF Operands, Given, Flags, IsFlag
<1>2. \A flag : Places(flag)' = Places(flag)
  BY <1>1 DEF Places
<1>3. OptionsAreMeant'
  <2> SUFFICES ASSUME NEW flag \in Flags
               PROVE  options'[flag] =
                        IF flag \in Given THEN Places(flag)' # {}
                        ELSE IF Places(flag)' = {} THEN Defaults[input.program][flag]
                        ELSE Operand(flag, input.argv[Max(Places(flag)') + 1])
    BY <1>1 DEF OptionsAreMeant
  <2> QED BY <1>2, Zenon DEF ArgsInv, OptionsAreMeant
<1>4. HasArg' => IsFlag'[arg_index' + 1]
  BY <1>1 DEF ArgsInv, HasArg
<1> QED BY <1>1, <1>2, <1>3, <1>4 DEF ArgsInv

(* No argument is read: the options are the defaults.                      *)
THEOREM InitArgsInv == Init => ArgsInv
<1> SUFFICES ASSUME Init PROVE ArgsInv
  OBVIOUS
<1>1. input \in Inputs /\ arg_index = 0
  BY DEF Init
<1>2. /\ options = [f \in Flags |-> options[f]]
      /\ \A f \in Flags : options[f] = IF f \in Given THEN FALSE ELSE Defaults[input.program][f]
  BY DEF Init
<1>3. \A flag : Places(flag) = {}
  BY <1>1 DEF Places
<1>4. OptionsAreMeant
  BY <1>2, <1>3 DEF OptionsAreMeant
<1>5. Len(input.argv) \in Nat
  BY <1>1, FlagSets
<1> QED BY <1>1, <1>2, <1>3, <1>4, <1>5, FirstFlag DEF ArgsInv, HasArg

(* Every step reads at most one flag, and then what belongs to it.         *)
THEOREM NextArgsInv == ArgsInv /\ [Next]_vars => ArgsInv'
<1> SUFFICES ASSUME ArgsInv, [Next]_vars PROVE ArgsInv'
  OBVIOUS
<1>1. ASSUME ParseOperand PROVE ArgsInv'
  <2>1. HasArg /\ Arg \in Operands /\ arg_index + 1 < Len(input.argv)
    BY <1>1 DEF ParseOperand
  <2>2. CASE Throw
    BY <2>2, ArgsKept DEF Throw, GoTo
  <2>3. CASE ~Throw
    <3> DEFINE operand == input.argv[arg_index + 2]
    <3>1. /\ ~(Arg \in Numeric /\ StoiThrows(operand))
          /\ options' = [options EXCEPT ![Arg] = Operand(Arg, operand)]
          /\ arg_index' = arg_index + 2 /\ input' = input
      BY <1>1, <2>3 DEF ParseOperand
    <3>2. Arg \notin Given /\ Arg \in Flags
      BY <2>1, FlagSets DEF ArgsInv, Flags
    <3>3. Arg \in Numeric => Operand(Arg, operand) \in Int
      BY <3>1, InputsAreTexts DEF StoiThrows, Operand
    <3>4. arg_index' <= Len(input.argv)
      BY <2>1, <3>1, FlagSets DEF ArgsInv
    <3> HIDE DEF operand
    <3> QED BY <2>1, <3>1, <3>2, <3>3, <3>4, FlagRead DEF operand
  <2> QED BY <2>2, <2>3
<1>2. ASSUME ParseSwitch PROVE ArgsInv'
  <2>1. /\ HasArg /\ Arg \in Given /\ options' = [options EXCEPT ![Arg] = TRUE]
        /\ arg_index' = arg_index + 1 /\ input' = input
    BY <1>2 DEF ParseSwitch
  <2>2. Arg \notin Operands /\ Arg \in Flags
    BY <2>1, FlagSets DEF ArgsInv, Flags
  <2>3. arg_index' <= Len(input.argv)
    BY <2>1, FlagSets DEF ArgsInv, HasArg
  <2> QED BY <2>1, <2>2, <2>3, FlagRead
<1>3. ASSUME ParseHelp PROVE ArgsInv'
  <2>1. /\ HasArg /\ Arg = "--help" /\ stage' = "help" /\ input' = input
        /\ arg_index' = arg_index + 1 /\ options' = options
    BY <1>3 DEF ParseHelp, GoTo
  <2>2. Arg \notin Flags /\ Arg \notin Operands
    BY <2>1, FlagSets DEF ArgsInv, Flags
  <2>3. arg_index' \in 0..Len(input.argv)
    BY <2>1, FlagSets DEF ArgsInv, HasArg
  <2>4. \A flag \in Flags : Places(flag)' = Places(flag)
    BY <2>1, <2>2, <2>3, PlaceAdded DEF ArgsInv
  <2>5. /\ Operands' = Operands /\ Given' = Given /\ Flags' = Flags
        /\ input'.argv = input.argv /\ input'.program = input.program
    BY <2>1 DEF Operands, Given, Flags
  <2>6. OptionsAreMeant'
    <3> SUFFICES ASSUME NEW flag \in Flags
                 PROVE  options'[flag] =
                          IF flag \in Given THEN Places(flag)' # {}
                          ELSE IF Places(flag)' = {} THEN Defaults[input.program][flag]
                          ELSE Operand(flag, input.argv[Max(Places(flag)') + 1])
      BY <2>5 DEF OptionsAreMeant
    <3> QED BY <2>1, <2>4, Zenon DEF ArgsInv, OptionsAreMeant
  <2> QED BY <2>1, <2>3, <2>4, <2>5, <2>6 DEF ArgsInv, HasArg, Flags
<1>4. ASSUME RejectArgument \/ EndOfArguments \/ InspectPidMode \/ ResetDatabase
              \/ LoadPolicy \/ OpenEventFile \/ LoadItem \/ EndOfItems
              \/ Returned \/ UNCHANGED vars
      PROVE ArgsInv'
  <2>1. UNCHANGED <<input, arg_index, options>> /\ (stage' = "args" => stage = "args")
    BY <1>4 DEF RejectArgument, EndOfArguments, InspectPidMode, ResetDatabase, LoadPolicy,
                OpenEventFile, LoadItem, EndOfItems, Returned, Throw, GoTo, vars
  <2> QED BY <2>1, ArgsKept
<1> QED BY <1>1, <1>2, <1>3, <1>4 DEF Next

(* In every behaviour the options say what the arguments read so far say.  *)
THEOREM StartupArgsInvariant == Spec => []ArgsInv
  BY InitArgsInv, NextArgsInv, PTL DEF Spec

(* The options of every accepted prefix of the command line are what its   *)
(* arguments say (parseArgs of main.cpp and of fanotify_demo.cpp).         *)
THEOREM OptionsAreAlwaysMeant == Spec => []OptionsAreMeant
  BY StartupArgsInvariant, PTL DEF ArgsInv
-----------------------------------------------------------------------------
(* The reset.  Behind the arguments, all of them are accepted; behind the  *)
(* choice of the mode no process is inspected; and only behind the reset   *)
(* is a database removed, the one that is named.                           *)
BehindReset == {"policy", "events", "items", "ready", "error"}
NoInspection == "--inspect-pid" \in Operands => options["--inspect-pid"] = NoValue

ResetInv ==
  /\ stage \in Ended \union {"args", "inspect", "reset", "policy", "events", "items"}
  /\ stage \notin {"args", "help", "error"} => arg_index = Len(input.argv)
  /\ stage \in (BehindReset \ {"error"}) \union {"reset"} => NoInspection
  /\ removed # {} =>
       /\ stage \in BehindReset /\ arg_index = Len(input.argv)
       /\ removed = {options["--db"]} /\ options["--reset-db"] /\ NoInspection

(* Each step goes on in main, and only ResetDatabase removes.              *)
THEOREM NextResetInv == ArgsInv /\ ResetInv /\ [Next]_vars => ResetInv'
<1> SUFFICES ASSUME ArgsInv, ResetInv, [Next]_vars PROVE ResetInv'
  OBVIOUS
<1> USE DEF ResetInv, BehindReset, Ended, GoTo
<1>0. input' = input => Operands' = Operands
  BY DEF Operands
<1>1. ASSUME ParseHelp \/ ParseOperand \/ ParseSwitch \/ RejectArgument PROVE ResetInv'
  <2>1. HasArg /\ input' = input /\ removed' = removed /\ stage' \in {"args", "help", "error"}
    BY <1>1 DEF ParseHelp, ParseOperand, ParseSwitch, RejectArgument, HasArg, Throw
  <2>2. stage = "args" /\ removed = {}
    BY <2>1 DEF HasArg
  <2> QED BY <2>1, <2>2
<1>2. ASSUME EndOfArguments PROVE ResetInv'
  BY <1>0, <1>2 DEF EndOfArguments, NoInspection
<1>3. ASSUME InspectPidMode PROVE ResetInv'
  BY <1>0, <1>3 DEF InspectPidMode, NoInspection
<1>4. ASSUME ResetDatabase PROVE ResetInv'
  <2>1. CASE Throw
    BY <1>0, <1>4, <2>1 DEF ResetDatabase, Throw, NoInspection
  <2>2. CASE ~Throw
    <3>1. /\ stage = "reset" /\ stage' = "policy"
          /\ removed' = IF options["--reset-db"] THEN {options["--db"]} ELSE {}
          /\ UNCHANGED <<input, arg_index, options>>
      BY <1>4, <2>2 DEF ResetDatabase
    <3> QED BY <1>0, <3>1 DEF NoInspection
  <2> QED BY <2>1, <2>2
<1>5. ASSUME Throw, stage \in BehindReset PROVE ResetInv'
  BY <1>0, <1>5 DEF Throw, NoInspection
<1>6. ASSUME LoadPolicy \/ OpenEventFile \/ LoadItem \/ EndOfItems, ~Throw PROVE ResetInv'
  <2>1. /\ stage \in {"policy", "events", "items"} /\ stage' \in {"events", "items", "ready"}
        /\ UNCHANGED <<input, arg_index, options, removed>>
    BY <1>6 DEF LoadPolicy, OpenEventFile, LoadItem, EndOfItems
  <2> QED BY <1>0, <2>1 DEF NoInspection
<1>7. ASSUME Returned \/ UNCHANGED vars PROVE ResetInv'
  BY <1>0, <1>7 DEF Returned, vars, NoInspection
<1>8. ASSUME LoadPolicy \/ OpenEventFile \/ LoadItem \/ EndOfItems PROVE stage \in BehindReset
  BY <1>8 DEF LoadPolicy, OpenEventFile, LoadItem, EndOfItems
<1> QED BY <1>1, <1>2, <1>3, <1>4, <1>5, <1>6, <1>7, <1>8 DEF Next

(* In every behaviour a removal is behind the reset and of one database.   *)
THEOREM StartupResetInvariant == Spec => []ResetInv
<1>1. Init => ResetInv
  BY DEF Init, ResetInv, Ended, BehindReset
<1> QED BY <1>1, NextResetInv, StartupArgsInvariant, PTL DEF Spec

(* A database is removed only for a command line that is accepted, asks    *)
(* for it and for no inspection, and it is the one that --db names.        *)
THEOREM OnlyMeantIsEverRemoved == Spec => []OnlyMeantIsRemoved
<1>1. ArgsInv /\ ResetInv => OnlyMeantIsRemoved
  <2> SUFFICES ASSUME ArgsInv, ResetInv, removed # {}
               PROVE  /\ arg_index = Len(input.argv)
                      /\ stage \notin {"args", "help", "inspected", "not_found"}
                      /\ Places("--reset-db") # {} /\ removed = {options["--db"]}
                      /\ "--inspect-pid" \in Operands => Places("--inspect-pid") = {}
    BY DEF OnlyMeantIsRemoved
  <2>1. /\ stage \in BehindReset /\ arg_index = Len(input.argv)
        /\ removed = {options["--db"]} /\ options["--reset-db"] /\ NoInspection
    BY DEF ResetInv
  <2>2. "--reset-db" \in Given /\ "--reset-db" \in Flags
    BY FlagSets DEF ArgsInv, Flags
  <2>3. options["--reset-db"] = (Places("--reset-db") # {})
    BY <2>2 DEF ArgsInv, OptionsAreMeant
  <2>4. "--inspect-pid" \in Operands => Places("--inspect-pid") = {}
    BY <2>1, NoValueIsNone DEF ArgsInv, NoInspection, Numeric
  <2> QED BY <2>1, <2>3, <2>4 DEF BehindReset
<1> QED BY <1>1, StartupArgsInvariant, StartupResetInvariant, PTL
-----------------------------------------------------------------------------
(* The files.  A policy or an event that is there was read from its file;  *)
(* the events are those of the items up to some item, none of which throws.*)
PolicyRead ==
  /\ ~Unreadable(PolicyFile) /\ ~PolicyThrows(Content(PolicyFile))
  /\ policy = PolicyFromJson(Content(PolicyFile))

ReadUpTo(n) ==
  /\ events = [i \in 1..n |-> EventFromJson(Items[i])]
  /\ \A i \in 1..n : ~EventThrows(Items[i])
  /\ n > 0 => ~Unreadable(EventFile) /\ IsArray(Content(EventFile)) /\ n <= Len(Items)

LoadInv ==
  /\ (stage \in {"events", "items"} \/ policy # NoValue \/ events # <<>>) => PolicyRead
  /\ stage = "items" => ~Unreadable(EventFile) /\ IsArray(Content(EventFile))
  /\ stage \notin {"items", "ready"} => events = <<>>
  /\ stage \notin {"events", "items", "ready"} => policy = NoValue
  /\ \E n \in Nat : ReadUpTo(n)

LEMMA ItemAppended ==
  ASSUME NEW n \in Nat, NEW f
  PROVE  Append([i \in 1..n |-> f[i]], f[n + 1]) = [i \in 1..(n + 1) |-> f[i]]
<1> DEFINE S == {f[i] : i \in 1..(n + 1)}
<1>1. [i \in 1..n |-> f[i]] \in Seq(S) /\ Len([i \in 1..n |-> f[i]]) = n
  <2>1. [i \in 1..n |-> f[i]] \in [1..n -> S]
    OBVIOUS
  <2> QED BY <2>1
<1> QED BY <1>1

LEMMA ReadOneMore ==
  ASSUME NEW n \in Nat, ReadUpTo(n), n < Len(Items), ~EventThrows(Items[n + 1]),
         ~Unreadable(EventFile), IsArray(Content(EventFile)), Len(Items) \in Nat,
         UNCHANGED <<input, options>>, events' = Append(events, EventFromJson(Items[n + 1]))
  PROVE  ReadUpTo(n + 1)'
<1>1. Items' = Items /\ EventFile' = EventFile /\ Content(EventFile)' = Content(EventFile)
  BY DEF Items, EventFile, Content
<1>2. PICK f : f = [i \in 1..(n + 1) |-> EventFromJson(Items[i])]
  OBVIOUS
<1>3. [i \in 1..n |-> EventFromJson(Items[i])] = [i \in 1..n |-> f[i]]
  BY <1>2
<1>4. EventFromJson(Items[n + 1]) = f[n + 1] /\ f = [i \in 1..(n + 1) |-> f[i]]
  BY <1>2
<1>5. events' = f
  <2>1. Append([i \in 1..n |-> f[i]], f[n + 1]) = [i \in 1..(n + 1) |-> f[i]]
    BY ItemAppended
  <2>2. events = [i \in 1..n |-> f[i]]
    BY <1>3, Zenon DEF ReadUpTo
  <2>3. events' = Append([i \in 1..n |-> f[i]], f[n + 1])
    BY <1>4, <2>2, Zenon
  <2> QED BY <1>4, <2>1, <2>3, Zenon
<1>6. \A i \in 1..(n + 1) : ~EventThrows(Items[i])
  <2>1. \A i \in 1..(n + 1) : i \in 1..n \/ i = n + 1
    OBVIOUS
  <2> QED BY <2>1 DEF ReadUpTo
<1>7. ~Unreadable(EventFile)'
  BY <1>1 DEF Unreadable
<1>8. n + 1 <= Len(Items)
  OBVIOUS
<1>9. events' = [i \in 1..(n + 1) |-> EventFromJson(Items[i])]
  BY <1>2, <1>5
<1> QED BY <1>1, <1>6, <1>7, <1>8, <1>9 DEF ReadUpTo

(* What a file holds, if it can be read and parsed.                        *)
LEMMA ContentIsJson ==
  ASSUME input \in Inputs, NEW path, ~Unreadable(path)
  PROVE  Content(path) \in Json
<1>1. path \in DOMAIN input.files
  BY DEF Unreadable, Content
<1>2. input.files[path] \in Json
  BY <1>1, InputsAreTexts DEF Range
<1> QED BY <1>1, <1>2 DEF Content

LEMMA ArrayHasLength ==
  ASSUME NEW j \in Json, IsArray(j)
  PROVE  /\ j[2] \in Seq(Json) /\ Len(j[2]) \in Nat /\ DOMAIN j[2] = 1..Len(j[2])
         /\ \A i \in DOMAIN j[2] : j[2][i] \in Json
<1>1. j[2] \in Seq(Json)
  BY JsonIsTyped
<1>2. Len(j[2]) \in Nat /\ DOMAIN j[2] = 1..Len(j[2])
  BY <1>1
<1>3. \A i \in 1..Len(j[2]) : j[2][i] \in Json
  BY <1>1
<1> QED BY <1>1, <1>2, <1>3

LEMMA LoadKept ==
  ASSUME LoadInv, UNCHANGED <<input, options, policy, events>>,
         stage' = "items" => stage = "items" \/ (~Unreadable(EventFile) /\ IsArray(Content(EventFile))),
         stage' \in {"events", "items"} => stage \in {"events", "items"},
         stage' \notin {"events", "items", "ready"} => stage \notin {"events", "items", "ready"},
         stage' \notin {"items", "ready"} => stage \notin {"items", "ready"}
  PROVE  LoadInv'
<1>1. /\ Items' = Items /\ EventFile' = EventFile /\ PolicyFile' = PolicyFile
      /\ \A path : Content(path)' = Content(path) /\ Unreadable(path)' = Unreadable(path)
  BY DEF Items, EventFile, PolicyFile, Content, Unreadable, Operands
<1>2. PolicyRead => PolicyRead'
  BY <1>1 DEF PolicyRead
<1>3. \A n \in Nat : ReadUpTo(n) => ReadUpTo(n)'
  BY <1>1 DEF ReadUpTo
<1> QED BY <1>1, <1>2, <1>3 DEF LoadInv

LEMMA LoadThrown ==
  ASSUME Throw
  PROVE  LoadInv'
<1>1. stage' = "error" /\ policy' = NoValue /\ events' = <<>>
  BY DEF Throw, GoTo
<1>2. ReadUpTo(0)'
  <2>1. events' = [i \in 1..0 |-> EventFromJson(Items)']
    BY <1>1
  <2> QED BY <1>1 DEF ReadUpTo
<1> QED BY <1>1, <1>2 DEF LoadInv

(* Every step reads a file or an item of it, or leaves what is loaded.     *)
THEOREM NextLoadInv == ArgsInv /\ LoadInv /\ [Next]_vars => LoadInv'
<1> SUFFICES ASSUME ArgsInv, LoadInv, [Next]_vars PROVE LoadInv'
  OBVIOUS
<1>0. ASSUME Throw PROVE LoadInv'
  BY <1>0, LoadThrown
<1>1. ASSUME ParseHelp \/ ParseOperand \/ ParseSwitch \/ RejectArgument \/ EndOfArguments
              \/ InspectPidMode \/ ResetDatabase, ~Throw
      PROVE LoadInv'
  <2>1. /\ UNCHANGED <<input, policy, events>>
        /\ {stage, stage'} \subseteq {"args", "help", "inspect", "reset", "inspected",
                                      "not_found", "policy"}
    BY <1>1 DEF ParseHelp, ParseOperand, ParseSwitch, RejectArgument, EndOfArguments,
                InspectPidMode, ResetDatabase, HasArg, GoTo
  <2>2. policy' = NoValue /\ events' = <<>>
    BY <2>1 DEF LoadInv
  <2>3. ReadUpTo(0)'
    BY <2>2 DEF ReadUpTo
  <2> QED BY <2>1, <2>2, <2>3 DEF LoadInv
<1>2. ASSUME LoadPolicy, ~Throw PROVE LoadInv'
  <2>1. /\ ~Unreadable(PolicyFile) /\ ~PolicyThrows(Content(PolicyFile))
        /\ policy' = PolicyFromJson(Content(PolicyFile)) /\ stage = "policy"
        /\ stage' \in {"events", "ready"} /\ UNCHANGED <<input, options, events>>
    BY <1>2 DEF LoadPolicy, GoTo
  <2>2. PolicyFile' = PolicyFile /\ \A path : Content(path)' = Content(path)
    BY <2>1 DEF PolicyFile, Operands, Content
  <2>3. PolicyRead'
    BY <2>1, <2>2 DEF PolicyRead, Unreadable
  <2>4. events' = <<>>
    BY <2>1 DEF LoadInv
  <2>5. ReadUpTo(0)'
    BY <2>4 DEF ReadUpTo
  <2> QED BY <2>1, <2>3, <2>4, <2>5 DEF LoadInv
<1>3. ASSUME LoadItem, ~Throw PROVE LoadInv'
  <2>1. /\ stage = "items" /\ Len(events) < Len(Items)
        /\ ~EventThrows(Items[Len(events) + 1])
        /\ events' = Append(events, EventFromJson(Items[Len(events) + 1]))
        /\ UNCHANGED <<input, options, stage, policy>>
    BY <1>3 DEF LoadItem
  <2>2. ~Unreadable(EventFile) /\ IsArray(Content(EventFile)) /\ PolicyRead
    BY <2>1 DEF LoadInv
  <2>3. PICK n \in Nat : ReadUpTo(n)
    BY DEF LoadInv
  <2>4. Len(events) = n
    BY <2>3 DEF ReadUpTo
  <2>5. Len(Items) \in Nat
    BY <2>2, ContentIsJson, ArrayHasLength DEF ArgsInv, Items
  <2>6. ReadUpTo(n + 1)'
    BY <2>1, <2>2, <2>3, <2>4, <2>5, ReadOneMore
  <2>7. PolicyRead' /\ ~Unreadable(EventFile)' /\ IsArray(Content(EventFile))'
    BY <2>1, <2>2 DEF PolicyRead, PolicyFile, EventFile, Content, Unreadable, IsArray, Operands
  <2> QED BY <2>1, <2>6, <2>7 DEF LoadInv
<1>4. ASSUME OpenEventFile \/ EndOfItems, ~Throw PROVE LoadInv'
  <2>1. /\ UNCHANGED <<input, options, policy, events>>
        /\ \/ stage = "events" /\ stage' = "items"
              /\ ~Unreadable(EventFile) /\ IsArray(Content(EventFile))
           \/ stage = "items" /\ stage' = "ready"
    BY <1>4 DEF OpenEventFile, EndOfItems, GoTo
  <2> QED BY <2>1, LoadKept
<1>5. ASSUME Returned \/ UNCHANGED vars PROVE LoadInv'
  <2>1. UNCHANGED <<input, options, policy, events, stage>>
    BY <1>5 DEF Returned, vars
  <2> QED BY <2>1, LoadKept
<1> QED BY <1>0, <1>1, <1>2, <1>3, <1>4, <1>5 DEF Next

(* In every behaviour what is loaded is what was read of the files so far. *)
THEOREM StartupLoadInvariant == Spec => []LoadInv
<1>1. Init => LoadInv
  <2> SUFFICES ASSUME Init PROVE LoadInv
    OBVIOUS
  <2>1. ReadUpTo(0)
    BY DEF Init, ReadUpTo
  <2> QED BY <2>1 DEF Init, LoadInv
<1> QED BY <1>1, NextLoadInv, StartupArgsInvariant, PTL DEF Spec
-----------------------------------------------------------------------------
(* The conversions.  What json::value has for a key, if it does not throw: *)
(* a text, or an int.                                                      *)
IntType == {n \in Int : FitsInt(n)}

LEMMA IntsFit ==
  /\ \A n \in Int : Wrap(n) \in IntType
  /\ -1 \in IntType /\ 0 \in IntType
  /\ \A level \in Levels : DefaultThresholds[level] \in IntType
<1>1. ASSUME NEW n \in -(IntMax + 1)..IntMax PROVE n \in IntType
  BY WrapOfSmall, IntMaxIsNatural DEF IntType, FitsInt
<1>2. \A n \in Int : Wrap(n) \in -(IntMax + 1)..IntMax
  BY WrapsAround
<1>3. -1 \in -(IntMax + 1)..IntMax /\ 0 \in -(IntMax + 1)..IntMax
  BY IntMaxIsNatural
<1>4. \A level \in Levels : DefaultThresholds[level] \in Int
  BY DEF Levels, DefaultThresholds
<1> QED BY <1>1, <1>2, <1>3, <1>4, DefaultsFit DEF IntType

LEMMA TextFacts ==
  ASSUME NEW j \in Json, NEW key, ~ValueThrows(j, key, TextKinds), NEW default \in Seq(STRING)
  PROVE  /\ IsObject(j)
         /\ TextValue(j, key, default) \in Seq(STRING)
         /\ Has(j, key) => At(j, key) = Text(TextValue(j, key, default))
<1>1. IsObject(j) /\ (Has(j, key) => At(j, key)[1] = "string")
  BY DEF ValueThrows, TextKinds
<1>2. Has(j, key) => At(j, key) \in Json
  BY JsonIsTyped DEF Has
<1>3. Has(j, key) => At(j, key)[2] \in Seq(STRING) /\ At(j, key) = <<At(j, key)[1], At(j, key)[2]>>
  BY <1>1, <1>2, JsonIsTyped
<1> QED BY <1>1, <1>3 DEF TextValue, TextOf, Text

LEMMA IntFacts ==
  ASSUME NEW j \in Json, NEW key, ~ValueThrows(j, key, NumberKinds), NEW default \in IntType
  PROVE  /\ IsObject(j)
         /\ IntValue(j, key, default) \in IntType
         /\ (Has(j, key) /\ Plain(At(j, key))) => At(j, key) = Number(IntValue(j, key, default))
<1>1. IsObject(j) /\ (Has(j, key) => At(j, key)[1] \in NumberKinds)
  BY DEF ValueThrows
<1>2. Has(j, key) => At(j, key) \in Json
  BY JsonIsTyped DEF Has
<1>3. Has(j, key) => At(j, key)[2] \in Int /\ At(j, key) = <<At(j, key)[1], At(j, key)[2]>>
  BY <1>1, <1>2, JsonIsTyped
<1>4. (Has(j, key) /\ Plain(At(j, key))) => At(j, key)[1] = "integer" /\ FitsInt(At(j, key)[2])
  BY <1>1 DEF Plain, IsText, TextKinds, NumberKinds
<1> QED BY <1>1, <1>3, <1>4, IntsFit DEF IntValue, IntOf, Number, FitsInt

(* The kinds of fields have no field in common.                            *)
LEMMA EventFieldKinds ==
  /\ EventFields = {"event_type"} \union TextFields \union IntFields \union OptionalTexts
                     \union OptionalInts
  /\ "event_type" \notin TextFields \union IntFields \union OptionalTexts \union OptionalInts
  /\ TextFields \intersect (IntFields \union OptionalTexts \union OptionalInts) = {}
  /\ IntFields \intersect (OptionalTexts \union OptionalInts) = {}
  /\ OptionalTexts \intersect OptionalInts = {}
BY DEF EventFields, TextFields, IntFields, OptionalTexts, OptionalInts

LEMMA FieldsOfEvent ==
  ASSUME NEW j
  PROVE  LET e == EventFromJson(j)
         IN /\ e = [key \in EventFields |-> e[key]]
            /\ e["event_type"] = EventTypeFromString(TextValue(j, "event_type", <<"UNKNOWN">>))
            /\ \A key \in TextFields : e[key] = TextValue(j, key, <<>>)
            /\ \A key \in IntFields : e[key] = IntValue(j, key, -1)
            /\ \A key \in OptionalTexts :
                 e[key] = IF Present(j, key) THEN TextOf(At(j, key)) ELSE NoValue
            /\ \A key \in OptionalInts :
                 e[key] = IF Present(j, key) THEN IntOf(At(j, key)) ELSE NoValue
<1> DEFINE e == EventFromJson(j)
           field(key) ==
             CASE key = "event_type" -> EventTypeFromString(TextValue(j, key, <<"UNKNOWN">>))
               [] key \in TextFields -> TextValue(j, key, <<>>)
               [] key \in IntFields -> IntValue(j, key, -1)
               [] key \in OptionalTexts -> IF Present(j, key) THEN TextOf(At(j, key)) ELSE NoValue
               [] key \in OptionalInts -> IF Present(j, key) THEN IntOf(At(j, key)) ELSE NoValue
<1>0. e = [key \in EventFields |-> field(key)]
  BY Zenon DEF EventFromJson
<1> HIDE DEF e
<1>1. e = [key \in EventFields |-> e[key]]
  <2> HIDE DEF field
  <2> QED BY <1>0
<1>2. \A key \in EventFields : e[key] = field(key)
  <2> HIDE DEF field
  <2> QED BY <1>0
<1>3. e["event_type"] = EventTypeFromString(TextValue(j, "event_type", <<"UNKNOWN">>))
  BY <1>2, EventFieldKinds
<1>4. ASSUME NEW key \in TextFields PROVE e[key] = TextValue(j, key, <<>>)
  BY <1>2, EventFieldKinds
<1>5. ASSUME NEW key \in IntFields PROVE e[key] = IntValue(j, key, -1)
  BY <1>2, EventFieldKinds
<1>6. ASSUME NEW key \in OptionalTexts
      PROVE  e[key] = IF Present(j, key) THEN TextOf(At(j, key)) ELSE NoValue
  BY <1>2, EventFieldKinds
<1>7. ASSUME NEW key \in OptionalInts
      PROVE  e[key] = IF Present(j, key) THEN IntOf(At(j, key)) ELSE NoValue
  BY <1>2, EventFieldKinds
<1> QED BY <1>1, <1>3, <1>4, <1>5, <1>6, <1>7 DEF e

(* The optionals, likewise.                                                *)
LEMMA OptionalTextFacts ==
  ASSUME NEW j \in Json, NEW key, IsObject(j), Present(j, key) => At(j, key)[1] \in TextKinds
  PROVE  Present(j, key) => /\ TextOf(At(j, key)) \in Seq(STRING)
                            /\ At(j, key) = Text(TextOf(At(j, key)))
<1> SUFFICES ASSUME Present(j, key)
             PROVE  /\ TextOf(At(j, key)) \in Seq(STRING)
                    /\ At(j, key) = Text(TextOf(At(j, key)))
  OBVIOUS
<1>1. At(j, key) \in Json /\ At(j, key)[1] = "string"
  BY JsonIsTyped DEF Present, Has, TextKinds
<1> QED BY <1>1, JsonIsTyped DEF TextOf, Text

LEMMA OptionalIntFacts ==
  ASSUME NEW j \in Json, NEW key, IsObject(j), Present(j, key) => At(j, key)[1] \in NumberKinds
  PROVE  Present(j, key) => /\ IntOf(At(j, key)) \in IntType
                            /\ Plain(At(j, key)) => At(j, key) = Number(IntOf(At(j, key)))
<1> SUFFICES ASSUME Present(j, key)
             PROVE  /\ IntOf(At(j, key)) \in IntType
                    /\ Plain(At(j, key)) => At(j, key) = Number(IntOf(At(j, key)))
  OBVIOUS
<1>1. At(j, key) \in Json /\ At(j, key)[1] \in NumberKinds
  BY JsonIsTyped DEF Present, Has
<1>2. At(j, key)[2] \in Int /\ At(j, key) = <<At(j, key)[1], At(j, key)[2]>>
  BY <1>1, JsonIsTyped
<1>3. Plain(At(j, key)) => At(j, key)[1] = "integer" /\ FitsInt(At(j, key)[2])
  BY <1>1 DEF Plain, IsText, TextKinds, NumberKinds
<1> QED BY <1>2, <1>3, IntsFit DEF IntOf, Number, FitsInt

(* An event that was read from JSON.                                       *)
TypedEvent(e) ==
  /\ e = [key \in EventFields |-> e[key]]
  /\ e["event_type"] \in EventTypes \union {"UNKNOWN"}
  /\ \A key \in TextFields : e[key] \in Seq(STRING)
  /\ \A key \in IntFields : e[key] \in IntType
  /\ \A key \in OptionalTexts : e[key] \in Seq(STRING) \union {NoValue}
  /\ \A key \in OptionalInts : e[key] \in IntType \union {NoValue}

LEMMA EventIsTyped ==
  ASSUME NEW j \in Json, ~EventThrows(j)
  PROVE  TypedEvent(EventFromJson(j)) /\ IsObject(j)
<1> DEFINE e == EventFromJson(j)
<1>1. /\ \A key \in {"event_type"} \union TextFields : ~ValueThrows(j, key, TextKinds)
      /\ \A key \in IntFields : ~ValueThrows(j, key, NumberKinds)
      /\ \A key \in OptionalTexts : Present(j, key) => At(j, key)[1] \in TextKinds
      /\ \A key \in OptionalInts : Present(j, key) => At(j, key)[1] \in NumberKinds
  BY DEF EventThrows
<1>2. /\ e = [key \in EventFields |-> e[key]]
      /\ e["event_type"] = EventTypeFromString(TextValue(j, "event_type", <<"UNKNOWN">>))
      /\ \A key \in TextFields : e[key] = TextValue(j, key, <<>>)
      /\ \A key \in IntFields : e[key] = IntValue(j, key, -1)
      /\ \A key \in OptionalTexts :
           e[key] = IF Present(j, key) THEN TextOf(At(j, key)) ELSE NoValue
      /\ \A key \in OptionalInts :
           e[key] = IF Present(j, key) THEN IntOf(At(j, key)) ELSE NoValue
  BY FieldsOfEvent
<1> HIDE DEF e
<1>3. IsObject(j)
  BY <1>1, TextFacts, EmptySeq
<1>4. e["event_type"] \in EventTypes \union {"UNKNOWN"}
  BY <1>2 DEF EventTypeFromString
<1>5. \A key \in TextFields : e[key] \in Seq(STRING)
  <2>1. <<>> \in Seq(STRING)
    OBVIOUS
  <2>2. \A key \in TextFields : TextValue(j, key, <<>>) \in Seq(STRING)
    BY <1>1, <2>1, TextFacts
  <2> QED BY <1>2, <2>2
<1>6. \A key \in IntFields : e[key] \in IntType
  BY <1>1, <1>2, IntFacts, IntsFit
<1>7. \A key \in OptionalTexts : e[key] \in Seq(STRING) \union {NoValue}
  BY <1>1, <1>2, <1>3, OptionalTextFacts
<1>8. \A key \in OptionalInts : e[key] \in IntType \union {NoValue}
  BY <1>1, <1>2, <1>3, OptionalIntFacts
<1> QED BY <1>2, <1>3, <1>4, <1>5, <1>6, <1>7, <1>8 DEF TypedEvent, e

(* What is written for such an event: every field with a value.            *)
LEMMA EventWritten ==
  ASSUME NEW e, TypedEvent(e)
  PROVE  LET back == EventToJson(e)
         IN /\ IsObject(back) /\ DOMAIN back[2] \subseteq EventFields
            /\ Has(back, "event_type")
            /\ At(back, "event_type") = Text(EventTypeToString(e["event_type"]))
            /\ \A key \in TextFields : Has(back, key) /\ At(back, key) = Text(e[key])
            /\ \A key \in IntFields : Has(back, key) /\ At(back, key) = Number(e[key])
            /\ \A key \in OptionalTexts : /\ Has(back, key) <=> e[key] # NoValue
                                          /\ Has(back, key) => At(back, key) = Text(e[key])
            /\ \A key \in OptionalInts : /\ Has(back, key) <=> e[key] # NoValue
                                         /\ Has(back, key) => At(back, key) = Number(e[key])
<1> DEFINE back == EventToJson(e)
           written == {k \in EventFields : e[k] # NoValue}
           value(key) == CASE key = "event_type" -> Text(EventTypeToString(e[key]))
                           [] key \in IntFields \union OptionalInts -> Number(e[key])
                           [] OTHER -> Text(e[key])
<1>1. back = Object([key \in written |-> value(key)])
  BY Zenon DEF EventToJson
<1> HIDE DEF back
<1>2. /\ IsObject(back) /\ DOMAIN back[2] = written
      /\ \A key : Has(back, key) <=> key \in written
      /\ \A key \in written : At(back, key) = value(key)
  <2> HIDE DEF written, value
  <2> QED BY <1>1 DEF Object, IsObject, Has, At
<1>3. \A key \in EventFields : key \in written <=> e[key] # NoValue
  OBVIOUS
<1>4. "event_type" \in written /\ \A key \in TextFields \union IntFields : key \in written
  <2>1. e["event_type"] \in STRING
    <3>1. e["event_type"] \in EventTypes \union {"UNKNOWN"}
      BY DEF TypedEvent
    <3> QED BY <3>1, CodeTokens
  <2> QED BY <2>1, NoValueIsNone, EventFieldKinds DEF TypedEvent, IntType
<1> HIDE DEF written
<1>5. At(back, "event_type") = Text(EventTypeToString(e["event_type"]))
  <2>1. value("event_type") = Text(EventTypeToString(e["event_type"]))
    BY EventFieldKinds
  <2> HIDE DEF value
  <2> QED BY <1>2, <1>4, <2>1
<1>6. \A key \in TextFields : At(back, key) = Text(e[key])
  BY <1>2, <1>4, EventFieldKinds
<1>7. \A key \in IntFields : At(back, key) = Number(e[key])
  BY <1>2, <1>4, EventFieldKinds
<1>8. \A key \in OptionalTexts : key \in written => At(back, key) = Text(e[key])
  BY <1>2, EventFieldKinds
<1>9. \A key \in OptionalInts : key \in written => At(back, key) = Number(e[key])
  BY <1>2, EventFieldKinds
<1> HIDE DEF value
<1>10. \A key \in OptionalTexts \union OptionalInts : Has(back, key) <=> e[key] # NoValue
  BY <1>2, <1>3, EventFieldKinds
<1>11. DOMAIN back[2] \subseteq EventFields
  BY <1>2 DEF written
<1> QED BY <1>2, <1>4, <1>5, <1>6, <1>7, <1>8, <1>9, <1>10, <1>11 DEF back

(* What is written for an event gives that event.                          *)
LEMMA EventTypeNames ==
  \A type \in EventTypes \union {"UNKNOWN"} :
    EventTypeToString(type) = <<type>> /\ EventTypeFromString(<<type>>) = type
<1>1. \A type \in EventTypes : EventTypeFromString(<<type>>) = type
  BY DEF EventTypeFromString
<1>2. \A type \in EventTypes : <<"UNKNOWN">> # <<type>>
  BY DEF EventTypes
<1> QED BY <1>1, <1>2 DEF EventTypeFromString, EventTypeToString

LEMMA EventRoundTrip ==
  ASSUME NEW e, TypedEvent(e)
  PROVE  ~EventThrows(EventToJson(e)) /\ EventFromJson(EventToJson(e)) = e
<1>1. PICK back : back = EventToJson(e)
  OBVIOUS
<1>2. /\ IsObject(back) /\ Has(back, "event_type")
      /\ At(back, "event_type") = Text(EventTypeToString(e["event_type"]))
      /\ \A key \in TextFields : Has(back, key) /\ At(back, key) = Text(e[key])
      /\ \A key \in IntFields : Has(back, key) /\ At(back, key) = Number(e[key])
      /\ \A key \in OptionalTexts : /\ Has(back, key) <=> e[key] # NoValue
                                    /\ Has(back, key) => At(back, key) = Text(e[key])
      /\ \A key \in OptionalInts : /\ Has(back, key) <=> e[key] # NoValue
                                   /\ Has(back, key) => At(back, key) = Number(e[key])
  BY <1>1, EventWritten
<1>3. \A x : Text(x)[1] = "string" /\ Text(x)[2] = x
             /\ Number(x)[1] = "integer" /\ Number(x)[2] = x
  BY DEF Text, Number
<1>4. ~EventThrows(back)
  BY <1>2, <1>3 DEF EventThrows, ValueThrows, Present, TextKinds, NumberKinds
<1>5. PICK f : f = EventFromJson(back)
  OBVIOUS
<1>6. /\ f = [key \in EventFields |-> f[key]]
      /\ f["event_type"] = EventTypeFromString(TextValue(back, "event_type", <<"UNKNOWN">>))
      /\ \A key \in TextFields : f[key] = TextValue(back, key, <<>>)
      /\ \A key \in IntFields : f[key] = IntValue(back, key, -1)
      /\ \A key \in OptionalTexts :
           f[key] = IF Present(back, key) THEN TextOf(At(back, key)) ELSE NoValue
      /\ \A key \in OptionalInts :
           f[key] = IF Present(back, key) THEN IntOf(At(back, key)) ELSE NoValue
  BY <1>5, FieldsOfEvent
<1>7. f["event_type"] = e["event_type"]
  <2>1. TextValue(back, "event_type", <<"UNKNOWN">>) = EventTypeToString(e["event_type"])
    BY <1>2, <1>3 DEF TextValue, TextOf
  <2>2. e["event_type"] \in EventTypes \union {"UNKNOWN"}
    BY DEF TypedEvent
  <2> QED BY <1>6, <2>1, <2>2, EventTypeNames
<1>8. \A key \in TextFields : f[key] = e[key]
  BY <1>2, <1>3, <1>6 DEF TextValue, TextOf
<1>9. \A key \in IntFields : f[key] = e[key]
  BY <1>2, <1>3, <1>6 DEF IntValue, IntOf, TypedEvent, IntType, FitsInt
<1>10. \A key \in OptionalTexts : f[key] = e[key]
  BY <1>2, <1>3, <1>6 DEF TextOf, Present
<1>11. \A key \in OptionalInts : f[key] = e[key]
  BY <1>2, <1>3, <1>6 DEF IntOf, Present, TypedEvent, IntType, FitsInt
<1>12. \A key \in EventFields : f[key] = e[key]
  BY <1>7, <1>8, <1>9, <1>10, <1>11, EventFieldKinds
<1>13. e = [key \in EventFields |-> e[key]]
  BY DEF TypedEvent
<1>14. f = e
  BY <1>6, <1>12, <1>13
<1> QED BY <1>1, <1>4, <1>5, <1>14
-----------------------------------------------------------------------------
(* Rules.                                                                  *)
LEMMA RuleFieldKinds ==
  /\ RuleFields = RuleTexts \union {"risk_points", "restricted_ports"} \union TextLists
  /\ Lists = TextLists \union {"restricted_ports"}
  /\ "risk_points" \notin RuleTexts \union Lists
  /\ "restricted_ports" \notin RuleTexts \union TextLists
  /\ RuleTexts \intersect TextLists = {} /\ "severity" \in RuleTexts
  /\ "event_type" \in RuleTexts
  /\ "sensitive_paths" \in TextLists
BY DEF RuleFields, RuleTexts, TextLists, Lists

LEMMA ListFacts ==
  ASSUME NEW j \in Json, NEW key
  PROVE  /\ List(j, key) \in Seq(Json) /\ Len(List(j, key)) \in Nat
         /\ DOMAIN List(j, key) = 1..Len(List(j, key))
         /\ \A i \in DOMAIN List(j, key) : List(j, key)[i] \in Json
<1>1. CASE Has(j, key) /\ IsArray(At(j, key))
  <2>1. At(j, key) \in Json
    BY <1>1, JsonIsTyped DEF Has
  <2> QED BY <1>1, <2>1, ArrayHasLength DEF List
<1>2. CASE ~(Has(j, key) /\ IsArray(At(j, key)))
  <2>1. List(j, key) = <<>>
    BY <1>2 DEF List
  <2> QED BY <2>1
<1> QED BY <1>1, <1>2

LEMMA FieldsOfRule ==
  ASSUME NEW j
  PROVE  LET r == RuleFromJson(j)
         IN /\ r = [key \in RuleFields |-> r[key]]
            /\ r["severity"] = TextValue(j, "severity", <<"UNKNOWN">>)
            /\ \A key \in RuleTexts \ {"severity"} : r[key] = TextValue(j, key, <<>>)
            /\ r["risk_points"] = IntValue(j, "risk_points", 0)
            /\ \A key \in TextLists :
                 r[key] = [i \in DOMAIN List(j, key) |-> TextOf(List(j, key)[i])]
            /\ r["restricted_ports"] = [i \in DOMAIN List(j, "restricted_ports") |->
                                          IntOf(List(j, "restricted_ports")[i])]
<1> DEFINE r == RuleFromJson(j)
           texts(key) == [i \in DOMAIN List(j, key) |-> TextOf(List(j, key)[i])]
           ints(key) == [i \in DOMAIN List(j, key) |-> IntOf(List(j, key)[i])]
           field(key) ==
             CASE key = "severity" -> TextValue(j, key, <<"UNKNOWN">>)
               [] key \in RuleTexts \ {"severity"} -> TextValue(j, key, <<>>)
               [] key = "risk_points" -> IntValue(j, key, 0)
               [] key \in TextLists -> texts(key)
               [] key = "restricted_ports" -> ints(key)
<1>1. r = [key \in RuleFields |-> field(key)]
  BY Zenon DEF RuleFromJson
<1> HIDE DEF r, texts, ints
<1>2. r = [key \in RuleFields |-> r[key]] /\ \A key \in RuleFields : r[key] = field(key)
  <2> HIDE DEF field
  <2> QED BY <1>1
<1>3. r["severity"] = TextValue(j, "severity", <<"UNKNOWN">>)
  BY <1>2, RuleFieldKinds
<1>4. ASSUME NEW key \in RuleTexts \ {"severity"} PROVE r[key] = TextValue(j, key, <<>>)
  BY <1>2, RuleFieldKinds
<1>5. r["risk_points"] = IntValue(j, "risk_points", 0)
  BY <1>2, RuleFieldKinds
<1>6. ASSUME NEW key \in TextLists PROVE r[key] = texts(key)
  BY <1>2, RuleFieldKinds
<1>7. r["restricted_ports"] = ints("restricted_ports")
  BY <1>2, RuleFieldKinds
<1> QED BY <1>2, <1>3, <1>4, <1>5, <1>6, <1>7 DEF r, texts, ints

(* A rule that was read from JSON.                                         *)
TypedRule(r) ==
  /\ r = [key \in RuleFields |-> r[key]]
  /\ \A key \in RuleTexts : r[key] \in Seq(STRING)
  /\ r["risk_points"] \in IntType
  /\ \A key \in TextLists : r[key] \in Seq(Seq(STRING))
  /\ r["restricted_ports"] \in Seq(IntType)

(* The patterns of a list.                                                 *)
LEMMA PatternFacts ==
  ASSUME NEW j \in Json, NEW key
  PROVE  LET list == List(j, key)
         IN /\ ~ListThrows(j, key, TextKinds) =>
                 /\ [i \in DOMAIN list |-> TextOf(list[i])] \in Seq(Seq(STRING))
                 /\ \A i \in DOMAIN list : list[i] = Text(TextOf(list[i]))
            /\ ~ListThrows(j, key, NumberKinds) =>
                 /\ [i \in DOMAIN list |-> IntOf(list[i])] \in Seq(IntType)
                 /\ \A i \in DOMAIN list : Plain(list[i]) => list[i] = Number(IntOf(list[i]))
<1>a. PICK n \in Nat : n = Len(List(j, key))
  BY ListFacts
<1>1. PICK list : /\ list = List(j, key) /\ n = Len(List(j, key))
                  /\ DOMAIN list = 1..n /\ \A i \in 1..n : list[i] \in Json
  BY <1>a, ListFacts
<1>2. ASSUME ~ListThrows(j, key, TextKinds)
      PROVE  /\ [i \in DOMAIN list |-> TextOf(list[i])] \in Seq(Seq(STRING))
             /\ \A i \in DOMAIN list : list[i] = Text(TextOf(list[i]))
  <2>1. ASSUME NEW i \in 1..n
        PROVE  TextOf(list[i]) \in Seq(STRING) /\ list[i] = Text(TextOf(list[i]))
    <3>1. list[i] \in Json /\ list[i][1] = "string"
      BY <1>1, <1>2 DEF ListThrows, TextKinds
    <3> QED BY <3>1, JsonIsTyped DEF TextOf, Text
  <2>2. [i \in 1..n |-> TextOf(list[i])] \in [1..n -> Seq(STRING)]
    BY <2>1
  <2>3. [i \in 1..n |-> TextOf(list[i])] \in Seq(Seq(STRING))
    <3>1. PICK S : S = Seq(STRING)
      OBVIOUS
    <3>2. PICK f : f = [i \in 1..n |-> TextOf(list[i])]
      OBVIOUS
    <3>3. f \in [1..n -> S]
      BY <2>2, <3>1, <3>2, Zenon
    <3>4. f \in Seq(S)
      BY <3>3
    <3> QED BY <3>1, <3>2, <3>4, Zenon
  <2> QED BY <1>1, <2>1, <2>3
<1>3. ASSUME ~ListThrows(j, key, NumberKinds)
      PROVE  /\ [i \in DOMAIN list |-> IntOf(list[i])] \in Seq(IntType)
             /\ \A i \in DOMAIN list : Plain(list[i]) => list[i] = Number(IntOf(list[i]))
  <2>1. ASSUME NEW i \in 1..n
        PROVE  /\ IntOf(list[i]) \in IntType
               /\ Plain(list[i]) => list[i] = Number(IntOf(list[i]))
    <3>1. list[i] \in Json /\ list[i][1] \in NumberKinds
      BY <1>1, <1>3 DEF ListThrows
    <3>2. list[i][2] \in Int /\ list[i] = <<list[i][1], list[i][2]>>
      BY <3>1, JsonIsTyped
    <3>3. Plain(list[i]) => list[i][1] = "integer" /\ FitsInt(list[i][2])
      BY <3>1 DEF Plain, IsText, TextKinds, NumberKinds
    <3> QED BY <3>2, <3>3, IntsFit DEF IntOf, Number, FitsInt
  <2>2. [i \in 1..n |-> IntOf(list[i])] \in [1..n -> IntType]
    BY <2>1
  <2>3. [i \in 1..n |-> IntOf(list[i])] \in Seq(IntType)
    <3>1. PICK f : f = [i \in 1..n |-> IntOf(list[i])]
      OBVIOUS
    <3>2. f \in [1..n -> IntType]
      BY <2>2, <3>1, Zenon
    <3>3. f \in Seq(IntType)
      BY <3>2
    <3> QED BY <3>1, <3>3, Zenon
  <2> QED BY <1>1, <2>1, <2>3
<1> QED BY <1>1, <1>2, <1>3, Zenon

LEMMA RuleIsTyped ==
  ASSUME NEW j \in Json, ~RuleThrows(j)
  PROVE  TypedRule(RuleFromJson(j)) /\ IsObject(j)
<1>1. /\ \A key \in RuleTexts : ~ValueThrows(j, key, TextKinds)
      /\ ~ValueThrows(j, "risk_points", NumberKinds)
      /\ \A key \in TextLists : ~ListThrows(j, key, TextKinds)
      /\ ~ListThrows(j, "restricted_ports", NumberKinds)
  BY DEF RuleThrows
<1>2. PICK r : r = RuleFromJson(j)
  OBVIOUS
<1>3. /\ r = [key \in RuleFields |-> r[key]]
      /\ r["severity"] = TextValue(j, "severity", <<"UNKNOWN">>)
      /\ \A key \in RuleTexts \ {"severity"} : r[key] = TextValue(j, key, <<>>)
      /\ r["risk_points"] = IntValue(j, "risk_points", 0)
      /\ \A key \in TextLists :
           r[key] = [i \in DOMAIN List(j, key) |-> TextOf(List(j, key)[i])]
      /\ r["restricted_ports"] = [i \in DOMAIN List(j, "restricted_ports") |->
                                    IntOf(List(j, "restricted_ports")[i])]
  BY <1>2, FieldsOfRule
<1>4. <<>> \in Seq(STRING) /\ <<"UNKNOWN">> \in Seq(STRING)
  BY CodeTokens
<1>5. ASSUME NEW key \in RuleTexts PROVE r[key] \in Seq(STRING)
  <2>1. TextValue(j, key, <<>>) \in Seq(STRING) /\ TextValue(j, key, <<"UNKNOWN">>) \in Seq(STRING)
    BY <1>1, <1>4, TextFacts
  <2> QED BY <1>3, <2>1, Zenon
<1>6. r["risk_points"] \in IntType /\ IsObject(j)
  BY <1>1, <1>3, IntFacts, IntsFit
<1>7. ASSUME NEW key \in TextLists PROVE r[key] \in Seq(Seq(STRING))
  <2>1. r[key] = [i \in DOMAIN List(j, key) |-> TextOf(List(j, key)[i])]
    BY <1>3
  <2>2. [i \in DOMAIN List(j, key) |-> TextOf(List(j, key)[i])] \in Seq(Seq(STRING))
    BY <1>1, PatternFacts
  <2> QED BY <2>1, <2>2, Zenon
<1>8. r["restricted_ports"] \in Seq(IntType)
  <2>1. [i \in DOMAIN List(j, "restricted_ports") |-> IntOf(List(j, "restricted_ports")[i])]
          \in Seq(IntType)
    BY <1>1, PatternFacts
  <2> QED BY <1>3, <2>1, Zenon
<1> QED BY <1>2, <1>3, <1>5, <1>6, <1>7, <1>8, Zenon DEF TypedRule

(* What is written for such a rule: texts and points, and nonempty lists.  *)
Texts(s) == [i \in DOMAIN s |-> Text(s[i])]
Numbers(s) == [i \in DOMAIN s |-> Number(s[i])]

LEMMA RuleWritten ==
  ASSUME NEW r, TypedRule(r)
  PROVE  LET back == RuleToJson(r)
         IN /\ IsObject(back)
            /\ \A key \in RuleTexts : Has(back, key) /\ At(back, key) = Text(r[key])
            /\ Has(back, "risk_points") /\ At(back, "risk_points") = Number(r["risk_points"])
            /\ \A key \in Lists : Has(back, key) <=> r[key] # <<>>
            /\ \A key \in TextLists : Has(back, key) => At(back, key) = Array(Texts(r[key]))
            /\ Has(back, "restricted_ports") =>
                 At(back, "restricted_ports") = Array(Numbers(r["restricted_ports"]))
<1> DEFINE back == RuleToJson(r)
           written == {k \in RuleFields : k \in RuleTexts \union {"risk_points"} \/ r[k] # <<>>}
           value(key) == CASE key \in RuleTexts -> Text(r[key])
                           [] key = "risk_points" -> Number(r[key])
                           [] key \in TextLists -> Array(Texts(r[key]))
                           [] OTHER -> Array(Numbers(r[key]))
<1>1. back = Object([key \in written |-> value(key)])
  BY Zenon DEF RuleToJson, Texts, Numbers
<1> HIDE DEF back
<1>2. /\ IsObject(back)
      /\ \A key : Has(back, key) <=> key \in written
      /\ \A key \in written : At(back, key) = value(key)
  <2> HIDE DEF written, value
  <2> QED BY <1>1 DEF Object, IsObject, Has, At
<1>3. /\ \A key \in RuleTexts \union {"risk_points"} : key \in written
      /\ \A key \in Lists : key \in written <=> r[key] # <<>>
  BY RuleFieldKinds
<1> HIDE DEF written
<1>4. \A key \in RuleTexts : At(back, key) = Text(r[key])
  BY <1>2, <1>3, RuleFieldKinds
<1>5. At(back, "risk_points") = Number(r["risk_points"])
  BY <1>2, <1>3, RuleFieldKinds
<1>6. \A key \in TextLists : key \in written => At(back, key) = Array(Texts(r[key]))
  BY <1>2, RuleFieldKinds
<1>7. "restricted_ports" \in written =>
        At(back, "restricted_ports") = Array(Numbers(r["restricted_ports"]))
  BY <1>2, RuleFieldKinds
<1> HIDE DEF value
<1> QED BY <1>2, <1>3, <1>4, <1>5, <1>6, <1>7 DEF back

(* The list that is read from a list that was written.                     *)
LEMMA ListReadBack ==
  ASSUME NEW back, NEW key, NEW T, NEW s \in Seq(T), IsObject(back), Has(back, key) <=> s # <<>>
  PROVE  /\ (Has(back, key) => At(back, key) = Array(Texts(s))) =>
              /\ ~ListThrows(back, key, TextKinds)
              /\ [i \in DOMAIN List(back, key) |-> TextOf(List(back, key)[i])] = s
         /\ (T = IntType /\ (Has(back, key) => At(back, key) = Array(Numbers(s)))) =>
              /\ ~ListThrows(back, key, NumberKinds)
              /\ [i \in DOMAIN List(back, key) |-> IntOf(List(back, key)[i])] = s
<1>1. /\ DOMAIN s = 1..Len(s) /\ Len(s) \in Nat /\ s = [i \in 1..Len(s) |-> s[i]]
      /\ \A i \in DOMAIN s : s[i] \in T
  OBVIOUS
<1>2. CASE s = <<>>
  <2>1. List(back, key) = <<>>
    BY <1>2 DEF List
  <2>2. DOMAIN List(back, key) = {}
    BY <2>1
  <2>3. /\ [i \in DOMAIN List(back, key) |-> TextOf(List(back, key)[i])] = <<>>
        /\ [i \in DOMAIN List(back, key) |-> IntOf(List(back, key)[i])] = <<>>
    BY <2>2
  <2>4. ~ListThrows(back, key, TextKinds) /\ ~ListThrows(back, key, NumberKinds)
    BY <2>2 DEF ListThrows
  <2> QED BY <1>2, <2>3, <2>4
<1>3. ASSUME s # <<>>, At(back, key) = Array(Texts(s))
      PROVE  /\ ~ListThrows(back, key, TextKinds)
             /\ [i \in DOMAIN List(back, key) |-> TextOf(List(back, key)[i])] = s
  <2>1. List(back, key) = Texts(s)
    BY <1>3 DEF List, Array, IsArray
  <2>2. DOMAIN Texts(s) = DOMAIN s /\ \A i \in DOMAIN s : Texts(s)[i] = Text(s[i])
    BY DEF Texts
  <2>3. \A i \in DOMAIN s : Texts(s)[i][1] \in TextKinds /\ TextOf(Texts(s)[i]) = s[i]
    BY <2>2 DEF Text, TextKinds, TextOf
  <2>4. [i \in DOMAIN Texts(s) |-> TextOf(Texts(s)[i])] = s
    BY <1>1, <2>2, <2>3
  <2> QED BY <2>1, <2>2, <2>3, <2>4, Zenon DEF ListThrows
<1>4. ASSUME s # <<>>, T = IntType, At(back, key) = Array(Numbers(s))
      PROVE  /\ ~ListThrows(back, key, NumberKinds)
             /\ [i \in DOMAIN List(back, key) |-> IntOf(List(back, key)[i])] = s
  <2>1. List(back, key) = Numbers(s)
    BY <1>4 DEF List, Array, IsArray
  <2>2. DOMAIN Numbers(s) = DOMAIN s /\ \A i \in DOMAIN s : Numbers(s)[i] = Number(s[i])
    BY DEF Numbers
  <2>3. \A i \in DOMAIN s : Wrap(s[i]) = s[i]
    BY <1>1, <1>4 DEF IntType, FitsInt
  <2>4. \A i \in DOMAIN s : Numbers(s)[i][1] \in NumberKinds /\ IntOf(Numbers(s)[i]) = s[i]
    BY <2>2, <2>3 DEF Number, NumberKinds, IntOf
  <2>5. [i \in DOMAIN Numbers(s) |-> IntOf(Numbers(s)[i])] = s
    BY <1>1, <2>2, <2>4
  <2> QED BY <2>1, <2>2, <2>4, <2>5, Zenon DEF ListThrows
<1> QED BY <1>2, <1>3, <1>4, Zenon

LEMMA RuleRoundTrip ==
  ASSUME NEW r, TypedRule(r)
  PROVE  ~RuleThrows(RuleToJson(r)) /\ RuleFromJson(RuleToJson(r)) = r
<1>1. PICK back : back = RuleToJson(r)
  OBVIOUS
<1>2. /\ IsObject(back)
      /\ \A key \in RuleTexts : Has(back, key) /\ At(back, key) = Text(r[key])
      /\ Has(back, "risk_points") /\ At(back, "risk_points") = Number(r["risk_points"])
      /\ \A key \in Lists : Has(back, key) <=> r[key] # <<>>
      /\ \A key \in TextLists : Has(back, key) => At(back, key) = Array(Texts(r[key]))
      /\ Has(back, "restricted_ports") =>
           At(back, "restricted_ports") = Array(Numbers(r["restricted_ports"]))
  BY <1>1, RuleWritten
<1>3. PICK f : f = RuleFromJson(back)
  OBVIOUS
<1>4. /\ f = [key \in RuleFields |-> f[key]]
      /\ f["severity"] = TextValue(back, "severity", <<"UNKNOWN">>)
      /\ \A key \in RuleTexts \ {"severity"} : f[key] = TextValue(back, key, <<>>)
      /\ f["risk_points"] = IntValue(back, "risk_points", 0)
      /\ \A key \in TextLists :
           f[key] = [i \in DOMAIN List(back, key) |-> TextOf(List(back, key)[i])]
      /\ f["restricted_ports"] = [i \in DOMAIN List(back, "restricted_ports") |->
                                    IntOf(List(back, "restricted_ports")[i])]
  BY <1>3, FieldsOfRule
<1>5. \A key \in RuleTexts : ~ValueThrows(back, key, TextKinds) /\ f[key] = r[key]
  BY <1>2, <1>4 DEF ValueThrows, TextValue, TextOf, Text, TextKinds
<1>6. ~ValueThrows(back, "risk_points", NumberKinds) /\ f["risk_points"] = r["risk_points"]
  BY <1>2, <1>4 DEF ValueThrows, IntValue, IntOf, Number, NumberKinds, TypedRule, IntType, FitsInt
<1>7. ASSUME NEW key \in TextLists
      PROVE  ~ListThrows(back, key, TextKinds) /\ f[key] = r[key]
  <2>1. r[key] \in Seq(Seq(STRING)) /\ key \in Lists
    BY RuleFieldKinds DEF TypedRule
  <2>2. /\ ~ListThrows(back, key, TextKinds)
        /\ [i \in DOMAIN List(back, key) |-> TextOf(List(back, key)[i])] = r[key]
    BY <1>2, <2>1, ListReadBack
  <2> QED BY <1>4, <2>2, Zenon
<1>8. ~ListThrows(back, "restricted_ports", NumberKinds)
      /\ f["restricted_ports"] = r["restricted_ports"]
  <2>1. r["restricted_ports"] \in Seq(IntType) /\ "restricted_ports" \in Lists
    BY RuleFieldKinds DEF TypedRule
  <2>2. /\ ~ListThrows(back, "restricted_ports", NumberKinds)
        /\ [i \in DOMAIN List(back, "restricted_ports") |->
              IntOf(List(back, "restricted_ports")[i])] = r["restricted_ports"]
    BY <1>2, <2>1, ListReadBack
  <2> QED BY <1>4, <2>2, Zenon
<1>9. ~RuleThrows(back)
  BY <1>5, <1>6, <1>7, <1>8 DEF RuleThrows
<1>10. \A key \in RuleFields : f[key] = r[key]
  BY <1>5, <1>6, <1>7, <1>8, RuleFieldKinds
<1>11. r = [key \in RuleFields |-> r[key]]
  BY DEF TypedRule
<1>12. f = r
  BY <1>4, <1>10, <1>11
<1> QED BY <1>1, <1>3, <1>9, <1>12
-----------------------------------------------------------------------------
(* Policies.                                                               *)
TypedPolicy(p) ==
  /\ p = [policy_version |-> p.policy_version, mode |-> p.mode,
          risk_thresholds |-> p.risk_thresholds, rules |-> p.rules]
  /\ p.policy_version \in Seq(STRING) /\ p.mode \in Seq(STRING)
  /\ p.risk_thresholds \in [Levels -> IntType]
  /\ Len(p.rules) \in Nat /\ DOMAIN p.rules = 1..Len(p.rules)
  /\ p.rules = [r \in DOMAIN p.rules |-> p.rules[r]]
  /\ \A r \in DOMAIN p.rules : TypedRule(p.rules[r])

LEMMA LengthOfList ==
  ASSUME NEW n \in Nat, NEW s, s = [i \in 1..n |-> s[i]]
  PROVE  Len(s) = n /\ DOMAIN s = 1..n
<1>1. s \in [1..n -> {s[i] : i \in 1..n}]
  OBVIOUS
<1> QED BY <1>1

LEMMA PolicyIsTyped ==
  ASSUME NEW j \in Json, ~PolicyThrows(j)
  PROVE  /\ TypedPolicy(PolicyFromJson(j)) /\ IsObject(j)
         /\ Has(j, "rules") /\ IsArray(At(j, "rules")) /\ List(j, "rules") = At(j, "rules")[2]
         /\ Len(PolicyFromJson(j).rules) = Len(List(j, "rules"))
         /\ DOMAIN PolicyFromJson(j).rules = DOMAIN List(j, "rules")
         /\ \A r \in DOMAIN List(j, "rules") :
              /\ List(j, "rules")[r] \in Json /\ ~RuleThrows(List(j, "rules")[r])
              /\ PolicyFromJson(j).rules[r] = RuleFromJson(List(j, "rules")[r])
<1>1. PICK p : p = PolicyFromJson(j)
  OBVIOUS
<1>2. PICK list : list = List(j, "rules")
  OBVIOUS
<1>3. /\ ~ValueThrows(j, "policy_version", TextKinds) /\ ~ValueThrows(j, "mode", TextKinds)
      /\ Has(j, "risk_thresholds") =>
           \A level \in Levels : ~ValueThrows(At(j, "risk_thresholds"), level, NumberKinds)
      /\ Has(j, "rules") /\ IsArray(At(j, "rules"))
      /\ \A r \in DOMAIN list : ~RuleThrows(list[r])
  BY <1>2 DEF PolicyThrows
<1>4. /\ Len(list) \in Nat /\ DOMAIN list = 1..Len(list) /\ \A r \in DOMAIN list : list[r] \in Json
      /\ list = At(j, "rules")[2]
  BY <1>2, <1>3, ListFacts DEF List
<1>5. /\ p = [policy_version |-> p.policy_version, mode |-> p.mode,
              risk_thresholds |-> p.risk_thresholds, rules |-> p.rules]
      /\ p.policy_version = TextValue(j, "policy_version", <<"unknown">>)
      /\ p.mode = TextValue(j, "mode", <<"REPORT_ONLY">>)
      /\ p.risk_thresholds =
           [level \in Levels |->
              IF Has(j, "risk_thresholds")
              THEN IntValue(At(j, "risk_thresholds"), level, DefaultThresholds[level])
              ELSE DefaultThresholds[level]]
      /\ p.rules = [r \in DOMAIN list |-> RuleFromJson(list[r])]
  BY <1>1, <1>2 DEF PolicyFromJson
<1>6. <<"unknown">> \in Seq(STRING) /\ <<"REPORT_ONLY">> \in Seq(STRING)
  BY CodeTokens
<1>7. p.policy_version \in Seq(STRING) /\ p.mode \in Seq(STRING) /\ IsObject(j)
  <2>1. TextValue(j, "policy_version", <<"unknown">>) \in Seq(STRING) /\ IsObject(j)
    BY <1>3, <1>6, TextFacts
  <2>2. TextValue(j, "mode", <<"REPORT_ONLY">>) \in Seq(STRING)
    BY <1>3, <1>6, TextFacts
  <2> QED BY <1>5, <2>1, <2>2, Zenon
<1>8. p.risk_thresholds \in [Levels -> IntType]
  <2>1. ASSUME NEW level \in Levels, Has(j, "risk_thresholds")
        PROVE  IntValue(At(j, "risk_thresholds"), level, DefaultThresholds[level]) \in IntType
    <3>1. At(j, "risk_thresholds") \in Json
      BY <2>1, JsonIsTyped DEF Has
    <3>2. ~ValueThrows(At(j, "risk_thresholds"), level, NumberKinds)
      BY <1>3, <2>1
    <3> QED BY <3>1, <3>2, IntFacts, IntsFit
  <2> QED BY <1>5, <2>1, IntsFit
<1>9. PICK n \in Nat : n = Len(list) /\ DOMAIN list = 1..n
  BY <1>4
<1>10. PICK rules : rules = p.rules /\ rules = [r \in 1..n |-> RuleFromJson(list[r])]
  BY <1>5, <1>9
<1>11. rules = [r \in 1..n |-> rules[r]] /\ \A r \in 1..n : rules[r] = RuleFromJson(list[r])
  BY <1>10
<1>12. Len(rules) = n /\ DOMAIN rules = 1..n
  BY <1>11, LengthOfList
<1>13. \A r \in 1..n : TypedRule(rules[r])
  BY <1>3, <1>4, <1>9, <1>11, RuleIsTyped
<1>14. TypedPolicy(p)
  BY <1>5, <1>7, <1>8, <1>9, <1>10, <1>11, <1>12, <1>13, Zenon DEF TypedPolicy
<1> QED BY <1>1, <1>2, <1>3, <1>4, <1>7, <1>9, <1>10, <1>11, <1>12, <1>14, Zenon

(* What is written for such a policy.                                      *)
LEMMA PolicyWritten ==
  ASSUME NEW p, TypedPolicy(p)
  PROVE  LET back == PolicyToJson(p)
         IN /\ IsObject(back)
            /\ Has(back, "policy_version") /\ At(back, "policy_version") = Text(p.policy_version)
            /\ Has(back, "mode") /\ At(back, "mode") = Text(p.mode)
            /\ Has(back, "risk_thresholds") /\ IsObject(At(back, "risk_thresholds"))
            /\ \A level \in Levels :
                 /\ Has(At(back, "risk_thresholds"), level)
                 /\ At(At(back, "risk_thresholds"), level) = Number(p.risk_thresholds[level])
            /\ Has(back, "rules") /\ IsArray(At(back, "rules"))
            /\ List(back, "rules") = [r \in DOMAIN p.rules |-> RuleToJson(p.rules[r])]
            /\ List(back, "rules") = At(back, "rules")[2]
<1>1. PICK thresholds, rules :
        /\ thresholds = Object([level \in Levels |-> Number(p.risk_thresholds[level])])
        /\ rules = Array([r \in DOMAIN p.rules |-> RuleToJson(p.rules[r])])
  OBVIOUS
<1>2. PICK members :
        members = [policy_version |-> Text(p.policy_version), mode |-> Text(p.mode),
                   risk_thresholds |-> thresholds, rules |-> rules]
  OBVIOUS
<1>3. PICK back : back = PolicyToJson(p) /\ back = Object(members)
  BY <1>1, <1>2, Zenon DEF PolicyToJson
<1>4. /\ DOMAIN members = {"policy_version", "mode", "risk_thresholds", "rules"}
      /\ members["policy_version"] = Text(p.policy_version) /\ members["mode"] = Text(p.mode)
      /\ members["risk_thresholds"] = thresholds /\ members["rules"] = rules
  BY <1>2
<1>5. back[1] = "object" /\ back[2] = members
  BY <1>3 DEF Object
<1>6. thresholds[1] = "object"
      /\ thresholds[2] = [level \in Levels |-> Number(p.risk_thresholds[level])]
  BY <1>1 DEF Object
<1>7. rules[1] = "array" /\ rules[2] = [r \in DOMAIN p.rules |-> RuleToJson(p.rules[r])]
  BY <1>1 DEF Array
<1>8. At(back, "risk_thresholds") = thresholds /\ At(back, "rules") = rules
  BY <1>4, <1>5 DEF At
<1>9. \A level \in Levels : /\ Has(thresholds, level)
                            /\ At(thresholds, level) = Number(p.risk_thresholds[level])
  BY <1>6 DEF Has, IsObject, At
<1>10. /\ IsObject(back) /\ Has(back, "policy_version") /\ Has(back, "mode")
       /\ Has(back, "risk_thresholds") /\ Has(back, "rules")
  BY <1>4, <1>5 DEF Has, IsObject
<1>11. At(back, "policy_version") = Text(p.policy_version) /\ At(back, "mode") = Text(p.mode)
  BY <1>4, <1>5 DEF At
<1>12. IsArray(rules) /\ IsObject(thresholds) /\ List(back, "rules") = rules[2]
  BY <1>6, <1>7, <1>8, <1>10 DEF IsArray, IsObject, List
<1> QED BY <1>3, <1>7, <1>8, <1>9, <1>10, <1>11, <1>12, Zenon

LEMMA PolicyRoundTrip ==
  ASSUME NEW p, TypedPolicy(p)
  PROVE  ~PolicyThrows(PolicyToJson(p)) /\ PolicyFromJson(PolicyToJson(p)) = p
<1>1. PICK back : back = PolicyToJson(p)
  OBVIOUS
<1>2. /\ IsObject(back)
      /\ Has(back, "policy_version") /\ At(back, "policy_version") = Text(p.policy_version)
      /\ Has(back, "mode") /\ At(back, "mode") = Text(p.mode)
      /\ Has(back, "risk_thresholds") /\ IsObject(At(back, "risk_thresholds"))
      /\ \A level \in Levels :
           /\ Has(At(back, "risk_thresholds"), level)
           /\ At(At(back, "risk_thresholds"), level) = Number(p.risk_thresholds[level])
      /\ Has(back, "rules") /\ IsArray(At(back, "rules"))
      /\ List(back, "rules") = [r \in DOMAIN p.rules |-> RuleToJson(p.rules[r])]
  BY <1>1, PolicyWritten
<1>3. PICK list : list = List(back, "rules") /\ DOMAIN list = DOMAIN p.rules
                  /\ \A r \in DOMAIN p.rules : list[r] = RuleToJson(p.rules[r])
  BY <1>2
<1>4. \A r \in DOMAIN p.rules : ~RuleThrows(list[r]) /\ RuleFromJson(list[r]) = p.rules[r]
  BY <1>3, RuleRoundTrip DEF TypedPolicy
<1>5. /\ ~ValueThrows(back, "policy_version", TextKinds) /\ ~ValueThrows(back, "mode", TextKinds)
      /\ TextValue(back, "policy_version", <<"unknown">>) = p.policy_version
      /\ TextValue(back, "mode", <<"REPORT_ONLY">>) = p.mode
  BY <1>2 DEF ValueThrows, TextValue, TextOf, Text, TextKinds
<1>6. ASSUME NEW level \in Levels
      PROVE  /\ ~ValueThrows(At(back, "risk_thresholds"), level, NumberKinds)
             /\ IntValue(At(back, "risk_thresholds"), level, DefaultThresholds[level])
                  = p.risk_thresholds[level]
  <2>1. p.risk_thresholds[level] \in Int /\ Wrap(p.risk_thresholds[level]) = p.risk_thresholds[level]
    BY DEF TypedPolicy, IntType, FitsInt
  <2> QED BY <1>2, <2>1 DEF ValueThrows, IntValue, IntOf, Number, NumberKinds
<1>7. ~PolicyThrows(back)
  BY <1>2, <1>3, <1>4, <1>5, <1>6, Zenon DEF PolicyThrows
<1>8. PICK f : f = PolicyFromJson(back)
  OBVIOUS
<1>9. /\ f = [policy_version |-> f.policy_version, mode |-> f.mode,
              risk_thresholds |-> f.risk_thresholds, rules |-> f.rules]
      /\ f.policy_version = TextValue(back, "policy_version", <<"unknown">>)
      /\ f.mode = TextValue(back, "mode", <<"REPORT_ONLY">>)
      /\ f.risk_thresholds =
           [level \in Levels |->
              IF Has(back, "risk_thresholds")
              THEN IntValue(At(back, "risk_thresholds"), level, DefaultThresholds[level])
              ELSE DefaultThresholds[level]]
      /\ f.rules = [r \in DOMAIN list |-> RuleFromJson(list[r])]
  BY <1>3, <1>8 DEF PolicyFromJson
<1>10. f.risk_thresholds = p.risk_thresholds
  <2>1. p.risk_thresholds = [level \in Levels |-> p.risk_thresholds[level]]
    BY DEF TypedPolicy
  <2> QED BY <1>2, <1>6, <1>9, <2>1
<1>11. f.rules = p.rules
  <2>1. p.rules = [r \in DOMAIN p.rules |-> p.rules[r]]
    BY DEF TypedPolicy
  <2> QED BY <1>3, <1>4, <1>9, <2>1
<1>12. p = [policy_version |-> p.policy_version, mode |-> p.mode,
            risk_thresholds |-> p.risk_thresholds, rules |-> p.rules]
  BY DEF TypedPolicy
<1>13. f = p
  BY <1>5, <1>9, <1>10, <1>11, <1>12, Zenon
<1> QED BY <1>1, <1>7, <1>8, <1>13
-----------------------------------------------------------------------------
(* What is loaded: a policy and events that were read from JSON.           *)
LEMMA LoadedPolicy ==
  ASSUME ArgsInv, PolicyRead
  PROVE  /\ Content(PolicyFile) \in Json /\ ~PolicyThrows(Content(PolicyFile))
         /\ policy = PolicyFromJson(Content(PolicyFile)) /\ TypedPolicy(policy)
BY ContentIsJson, PolicyIsTyped DEF ArgsInv, PolicyRead

LEMMA LoadedEvents ==
  ASSUME ArgsInv, LoadInv, NEW i \in DOMAIN events
  PROVE  /\ Items[i] \in Json /\ ~EventThrows(Items[i])
         /\ events[i] = EventFromJson(Items[i]) /\ TypedEvent(events[i])
         /\ PolicyRead
<1>1. PICK n \in Nat : ReadUpTo(n)
  BY DEF LoadInv
<1>2. /\ events = [k \in 1..n |-> EventFromJson(Items[k])] /\ ~EventThrows(Items[i])
      /\ i \in 1..n /\ events[i] = EventFromJson(Items[i])
  BY <1>1 DEF ReadUpTo
<1>3. ~Unreadable(EventFile) /\ IsArray(Content(EventFile)) /\ n <= Len(Items)
  BY <1>1, <1>2 DEF ReadUpTo
<1>4. Items[i] \in Json
  BY <1>2, <1>3, ContentIsJson, ArrayHasLength DEF ArgsInv, Items
<1>5. PolicyRead
  <2>1. events # <<>>
    OBVIOUS
  <2> QED BY <2>1 DEF LoadInv
<1> QED BY <1>2, <1>4, <1>5, EventIsTyped

(* What is written of policy and events can be read, and gives the same    *)
(* (Event.cpp:67-95, PolicyLoader.cpp:106-145).                            *)
THEOREM RoundTripAlways == Spec => []RoundTrip
<1>1. ArgsInv /\ LoadInv => RoundTrip
  <2> SUFFICES ASSUME ArgsInv, LoadInv PROVE RoundTrip
    OBVIOUS
  <2>1. policy # NoValue => TypedPolicy(policy)
    BY LoadedPolicy DEF LoadInv
  <2>2. \A i \in DOMAIN events : TypedEvent(events[i])
    BY LoadedEvents
  <2> QED BY <2>1, <2>2, PolicyRoundTrip, EventRoundTrip DEF RoundTrip
<1> QED BY <1>1, StartupArgsInvariant, StartupLoadInvariant, PTL

(* Every variable of the start has its type.                               *)
THEOREM StartupTypes == Spec => []TypeOK
<1>1. ArgsInv /\ ResetInv /\ LoadInv => TypeOK
  <2> SUFFICES ASSUME ArgsInv, ResetInv, LoadInv PROVE TypeOK
    OBVIOUS
  <2>1. DOMAIN options = Flags
    BY DEF ArgsInv
  <2>2. policy = NoValue \/ Len(policy.rules) >= 0
    BY LoadedPolicy DEF LoadInv, TypedPolicy
  <2>3. \A i \in DOMAIN events : DOMAIN events[i] = EventFields
    <3>1. \A e : TypedEvent(e) => DOMAIN e = EventFields
      BY DEF TypedEvent
    <3> QED BY <3>1, LoadedEvents
  <2> QED BY <2>1, <2>2, <2>3 DEF TypeOK, ArgsInv, ResetInv
<1> QED BY <1>1, StartupArgsInvariant, StartupResetInvariant, StartupLoadInvariant, PTL
-----------------------------------------------------------------------------
(* What is written of what was read has what the file had.                 *)
LEMMA PlainIsPresent ==
  ASSUME NEW j, NEW key, Has(j, key), Plain(At(j, key))
  PROVE  Present(j, key)
BY DEF Present, Plain, IsText, TextKinds

LEMMA EventRepeats ==
  ASSUME NEW j \in Json, ~EventThrows(j)
  PROVE  Repeats(EventToJson(EventFromJson(j)), j,
                 IF KnownType(j) THEN EventFields ELSE EventFields \ {"event_type"})
<1>1. PICK e : e = EventFromJson(j) /\ TypedEvent(e) /\ IsObject(j)
  BY EventIsTyped
<1>2. PICK back : back = EventToJson(e)
  OBVIOUS
<1>3. /\ Has(back, "event_type")
      /\ At(back, "event_type") = Text(EventTypeToString(e["event_type"]))
      /\ \A key \in TextFields : Has(back, key) /\ At(back, key) = Text(e[key])
      /\ \A key \in IntFields : Has(back, key) /\ At(back, key) = Number(e[key])
      /\ \A key \in OptionalTexts : /\ Has(back, key) <=> e[key] # NoValue
                                    /\ Has(back, key) => At(back, key) = Text(e[key])
      /\ \A key \in OptionalInts : /\ Has(back, key) <=> e[key] # NoValue
                                   /\ Has(back, key) => At(back, key) = Number(e[key])
  BY <1>1, <1>2, EventWritten
<1>4. /\ e["event_type"] = EventTypeFromString(TextValue(j, "event_type", <<"UNKNOWN">>))
      /\ \A key \in TextFields : e[key] = TextValue(j, key, <<>>)
      /\ \A key \in IntFields : e[key] = IntValue(j, key, -1)
      /\ \A key \in OptionalTexts :
           e[key] = IF Present(j, key) THEN TextOf(At(j, key)) ELSE NoValue
      /\ \A key \in OptionalInts :
           e[key] = IF Present(j, key) THEN IntOf(At(j, key)) ELSE NoValue
  BY <1>1, FieldsOfEvent
<1>5. /\ \A key \in {"event_type"} \union TextFields : ~ValueThrows(j, key, TextKinds)
      /\ \A key \in IntFields : ~ValueThrows(j, key, NumberKinds)
      /\ \A key \in OptionalTexts : Present(j, key) => At(j, key)[1] \in TextKinds
      /\ \A key \in OptionalInts : Present(j, key) => At(j, key)[1] \in NumberKinds
  BY DEF EventThrows
<1>6. <<>> \in Seq(STRING) /\ <<"UNKNOWN">> \in Seq(STRING)
  BY CodeTokens
<1> DEFINE Same(key) == Has(back, key) /\ At(back, key) = At(j, key)
<1>7. ASSUME NEW key \in TextFields, Has(j, key) PROVE Same(key)
  <2>1. At(j, key) = Text(TextValue(j, key, <<>>))
    BY <1>5, <1>6, <1>7, TextFacts
  <2> QED BY <1>3, <1>4, <2>1, Zenon
<1>8. ASSUME NEW key \in IntFields, Has(j, key), Plain(At(j, key)) PROVE Same(key)
  <2>1. At(j, key) = Number(IntValue(j, key, -1))
    BY <1>5, <1>8, IntFacts, IntsFit
  <2> QED BY <1>3, <1>4, <2>1, Zenon
<1>9. ASSUME NEW key \in OptionalTexts, Has(j, key), Plain(At(j, key)) PROVE Same(key)
  <2>1. Present(j, key)
    BY <1>9, PlainIsPresent
  <2>2. TextOf(At(j, key)) \in Seq(STRING) /\ At(j, key) = Text(TextOf(At(j, key)))
    BY <1>1, <1>5, <2>1, OptionalTextFacts
  <2>3. e[key] = TextOf(At(j, key)) /\ e[key] # NoValue
    BY <1>4, <2>1, <2>2, NoValueIsNone
  <2> QED BY <1>3, <2>2, <2>3, Zenon
<1>10. ASSUME NEW key \in OptionalInts, Has(j, key), Plain(At(j, key)) PROVE Same(key)
  <2>1. Present(j, key)
    BY <1>10, PlainIsPresent
  <2>2. IntOf(At(j, key)) \in IntType /\ At(j, key) = Number(IntOf(At(j, key)))
    BY <1>1, <1>5, <1>10, <2>1, OptionalIntFacts
  <2>3. e[key] = IntOf(At(j, key)) /\ e[key] # NoValue
    BY <1>4, <2>1, <2>2, NoValueIsNone DEF IntType
  <2> QED BY <1>3, <2>2, <2>3, Zenon
<1>11. ASSUME KnownType(j), Has(j, "event_type") PROVE Same("event_type")
  <2>1. PICK text : text = TextValue(j, "event_type", <<>>)
    OBVIOUS
  <2>2. At(j, "event_type") = Text(text)
    BY <1>5, <1>6, <1>11, <2>1, TextFacts
  <2>3. TextValue(j, "event_type", <<"UNKNOWN">>) = text
    BY <1>11, <2>1 DEF TextValue
  <2>4. e["event_type"] = EventTypeFromString(text) /\ EventTypeFromString(text) # "UNKNOWN"
    BY <1>4, <1>11, <2>1, <2>3 DEF KnownType
  <2>5. PICK type \in EventTypes : text = <<type>>
    BY <2>4 DEF EventTypeFromString
  <2>6. EventTypeToString(e["event_type"]) = text
    BY <2>4, <2>5, EventTypeNames
  <2> QED BY <1>3, <2>2, <2>6, Zenon
<1> HIDE DEF Same
<1>12. ASSUME NEW key \in IF KnownType(j) THEN EventFields ELSE EventFields \ {"event_type"},
              Has(j, key), Kept(key, At(j, key))
       PROVE  Same(key)
  <2>1. key \in EventFields /\ key \notin Lists
    BY DEF EventFields, TextFields, IntFields, OptionalTexts, OptionalInts, Lists, TextLists
  <2>2. Plain(At(j, key)) /\ (key = "event_type" => KnownType(j))
    BY <1>12, <2>1 DEF Kept
  <2> QED BY <1>7, <1>8, <1>9, <1>10, <1>11, <1>12, <2>1, <2>2, EventFieldKinds
<1> QED BY <1>1, <1>2, <1>12, Zenon DEF Repeats, Same

LEMMA RuleRepeats ==
  ASSUME NEW j \in Json, ~RuleThrows(j)
  PROVE  Repeats(RuleToJson(RuleFromJson(j)), j, RuleFields)
<1>1. PICK r : r = RuleFromJson(j) /\ TypedRule(r)
  BY RuleIsTyped
<1>2. PICK back : back = RuleToJson(r)
  OBVIOUS
<1>3. /\ \A key \in RuleTexts : Has(back, key) /\ At(back, key) = Text(r[key])
      /\ Has(back, "risk_points") /\ At(back, "risk_points") = Number(r["risk_points"])
      /\ \A key \in Lists : Has(back, key) <=> r[key] # <<>>
      /\ \A key \in TextLists : Has(back, key) => At(back, key) = Array(Texts(r[key]))
      /\ Has(back, "restricted_ports") =>
           At(back, "restricted_ports") = Array(Numbers(r["restricted_ports"]))
  BY <1>1, <1>2, RuleWritten
<1>4. /\ r["severity"] = TextValue(j, "severity", <<"UNKNOWN">>)
      /\ \A key \in RuleTexts \ {"severity"} : r[key] = TextValue(j, key, <<>>)
      /\ r["risk_points"] = IntValue(j, "risk_points", 0)
      /\ \A key \in TextLists :
           r[key] = [i \in DOMAIN List(j, key) |-> TextOf(List(j, key)[i])]
      /\ r["restricted_ports"] = [i \in DOMAIN List(j, "restricted_ports") |->
                                    IntOf(List(j, "restricted_ports")[i])]
  BY <1>1, FieldsOfRule
<1>5. /\ \A key \in RuleTexts : ~ValueThrows(j, key, TextKinds)
      /\ ~ValueThrows(j, "risk_points", NumberKinds)
      /\ \A key \in TextLists : ~ListThrows(j, key, TextKinds)
      /\ ~ListThrows(j, "restricted_ports", NumberKinds)
  BY DEF RuleThrows
<1>6. <<>> \in Seq(STRING) /\ <<"UNKNOWN">> \in Seq(STRING)
  BY CodeTokens
<1> DEFINE Same(key) == Has(back, key) /\ At(back, key) = At(j, key)
<1>7. ASSUME NEW key \in RuleTexts, Has(j, key) PROVE Same(key)
  <2>1. /\ At(j, key) = Text(TextValue(j, key, <<>>))
        /\ At(j, key) = Text(TextValue(j, key, <<"UNKNOWN">>))
    BY <1>5, <1>6, <1>7, TextFacts
  <2> QED BY <1>3, <1>4, <2>1, Zenon
<1>8. ASSUME Has(j, "risk_points"), Plain(At(j, "risk_points")) PROVE Same("risk_points")
  <2>1. At(j, "risk_points") = Number(IntValue(j, "risk_points", 0))
    BY <1>5, <1>8, IntFacts, IntsFit
  <2> QED BY <1>3, <1>4, <2>1, Zenon
<1>9. ASSUME NEW key \in Lists, Has(j, key), IsArray(At(j, key)), At(j, key)[2] # <<>>,
             \A i \in DOMAIN At(j, key)[2] : Plain(At(j, key)[2][i])
      PROVE  Same(key)
  <2>1. PICK list : list = List(j, key) /\ list = At(j, key)[2]
    BY <1>9 DEF List
  <2>2. /\ Len(list) \in Nat /\ DOMAIN list = 1..Len(list) /\ list \in Seq(Json)
    BY <2>1, ListFacts
  <2>3. list = [i \in DOMAIN list |-> list[i]] /\ DOMAIN list # {}
    <3>1. list = [i \in 1..Len(list) |-> list[i]]
      BY <2>2
    <3>2. list # <<>>
      BY <1>9, <2>1, Zenon
    <3>3. Len(list) # 0
      BY <2>2, <3>2, EmptySeq
    <3>4. DOMAIN list # {}
      <4>1. PICK n \in Nat : n = Len(list) /\ DOMAIN list = 1..n /\ n # 0
        BY <2>2, <3>3, Zenon
      <4>2. 1 \in 1..n
        BY <4>1
      <4> QED BY <4>1, <4>2, Zenon
    <3> QED BY <2>2, <3>1, <3>4, Zenon
  <2>4. At(j, key) = Array(list)
    <3>1. At(j, key) \in Json
      BY <1>9, JsonIsTyped DEF Has
    <3>2. At(j, key) = <<At(j, key)[1], At(j, key)[2]>>
      BY <3>1, JsonIsTyped
    <3> QED BY <1>9, <2>1, <3>2 DEF Array, IsArray
  <2>5. CASE key \in TextLists
    <3>1. PICK s : s = r[key] /\ s = [i \in DOMAIN list |-> TextOf(list[i])]
      BY <1>4, <2>1, <2>5
    <3>2. \A i \in DOMAIN list : list[i] = Text(TextOf(list[i]))
      <4>1. \A i \in DOMAIN List(j, key) : List(j, key)[i] = Text(TextOf(List(j, key)[i]))
        BY <1>5, <2>5, PatternFacts
      <4> QED BY <2>1, <4>1, Zenon
    <3>3. DOMAIN s = DOMAIN list /\ \A i \in DOMAIN list : Text(s[i]) = list[i]
      BY <3>1, <3>2
    <3>4. Texts(s) = list
      BY <2>3, <3>3 DEF Texts
    <3>5. s # <<>>
      BY <2>3, <3>3
    <3> QED BY <1>3, <1>9, <2>4, <2>5, <3>1, <3>4, <3>5, Zenon
  <2>6. CASE key = "restricted_ports"
    <3>1. PICK s : s = r[key] /\ s = [i \in DOMAIN list |-> IntOf(list[i])]
      BY <1>4, <2>1, <2>6
    <3>2. \A i \in DOMAIN list : list[i] = Number(IntOf(list[i]))
      <4>1. \A i \in DOMAIN list : Plain(list[i])
        BY <1>9, <2>1
      <4>2. \A i \in DOMAIN List(j, key) :
              Plain(List(j, key)[i]) => List(j, key)[i] = Number(IntOf(List(j, key)[i]))
        BY <1>5, <2>6, PatternFacts
      <4> QED BY <2>1, <4>1, <4>2, Zenon
    <3>3. DOMAIN s = DOMAIN list /\ \A i \in DOMAIN list : Number(s[i]) = list[i]
      BY <3>1, <3>2
    <3>4. Numbers(s) = list
      BY <2>3, <3>3 DEF Numbers
    <3>5. s # <<>>
      BY <2>3, <3>3
    <3> QED BY <1>3, <1>9, <2>4, <2>6, <3>1, <3>4, <3>5, Zenon
  <2> QED BY <2>5, <2>6, RuleFieldKinds
<1> HIDE DEF Same
<1>10. ASSUME NEW key \in RuleFields, Has(j, key), Kept(key, At(j, key)) PROVE Same(key)
  BY <1>7, <1>8, <1>9, <1>10, RuleFieldKinds, Zenon DEF Kept
<1> QED BY <1>1, <1>2, <1>10, Zenon DEF Repeats, Same

LEMMA PolicyRepeats ==
  ASSUME NEW j \in Json, ~PolicyThrows(j)
  PROVE  LET p == PolicyFromJson(j)
             back == PolicyToJson(p)
         IN /\ Repeats(back, j, {"policy_version", "mode"})
            /\ Has(j, "risk_thresholds") =>
                 Repeats(At(back, "risk_thresholds"), At(j, "risk_thresholds"), Levels)
            /\ Len(p.rules) = Len(At(j, "rules")[2])
            /\ \A r \in DOMAIN p.rules :
                 Repeats(At(back, "rules")[2][r], At(j, "rules")[2][r], RuleFields)
<1>1. PICK p : p = PolicyFromJson(j) /\ TypedPolicy(p)
  BY PolicyIsTyped
<1>2. PICK list : /\ list = At(j, "rules")[2] /\ list = List(j, "rules")
                  /\ Len(p.rules) = Len(list) /\ DOMAIN p.rules = DOMAIN list
                  /\ \A r \in DOMAIN list : /\ list[r] \in Json /\ ~RuleThrows(list[r])
                                            /\ p.rules[r] = RuleFromJson(list[r])
  BY <1>1, PolicyIsTyped
<1>3. PICK back : back = PolicyToJson(p)
  OBVIOUS
<1>4. /\ Has(back, "policy_version") /\ At(back, "policy_version") = Text(p.policy_version)
      /\ Has(back, "mode") /\ At(back, "mode") = Text(p.mode)
      /\ \A level \in Levels :
           /\ Has(At(back, "risk_thresholds"), level)
           /\ At(At(back, "risk_thresholds"), level) = Number(p.risk_thresholds[level])
      /\ At(back, "rules")[2] = [r \in DOMAIN p.rules |-> RuleToJson(p.rules[r])]
  BY <1>1, <1>3, PolicyWritten
<1>5. /\ ~ValueThrows(j, "policy_version", TextKinds) /\ ~ValueThrows(j, "mode", TextKinds)
      /\ Has(j, "risk_thresholds") =>
           \A level \in Levels : ~ValueThrows(At(j, "risk_thresholds"), level, NumberKinds)
  BY DEF PolicyThrows
<1>6. /\ p.policy_version = TextValue(j, "policy_version", <<"unknown">>)
      /\ p.mode = TextValue(j, "mode", <<"REPORT_ONLY">>)
      /\ Has(j, "risk_thresholds") => \A level \in Levels :
           p.risk_thresholds[level]
             = IntValue(At(j, "risk_thresholds"), level, DefaultThresholds[level])
  BY <1>1 DEF PolicyFromJson
<1>7. <<"unknown">> \in Seq(STRING) /\ <<"REPORT_ONLY">> \in Seq(STRING)
  BY CodeTokens
<1>8. Repeats(back, j, {"policy_version", "mode"})
  <2>1. Has(j, "policy_version") => At(j, "policy_version") = Text(p.policy_version)
    BY <1>5, <1>6, <1>7, TextFacts
  <2>2. Has(j, "mode") => At(j, "mode") = Text(p.mode)
    BY <1>5, <1>6, <1>7, TextFacts
  <2> QED BY <1>4, <2>1, <2>2, Zenon DEF Repeats
<1>9. ASSUME Has(j, "risk_thresholds")
      PROVE  Repeats(At(back, "risk_thresholds"), At(j, "risk_thresholds"), Levels)
  <2>1. PICK from, to : from = At(j, "risk_thresholds") /\ to = At(back, "risk_thresholds")
    OBVIOUS
  <2>2. from \in Json
    BY <1>9, <2>1, JsonIsTyped DEF Has
  <2>3. ASSUME NEW level \in Levels, Has(from, level), Kept(level, At(from, level))
        PROVE  Has(to, level) /\ At(to, level) = At(from, level)
    <3>1. level \notin Lists
      BY DEF Levels, DefaultThresholds, Lists, TextLists
    <3>2. Plain(At(from, level))
      BY <2>3, <3>1 DEF Kept
    <3>3. At(from, level) = Number(IntValue(from, level, DefaultThresholds[level]))
      BY <1>5, <1>9, <2>1, <2>2, <2>3, <3>2, IntFacts, IntsFit
    <3>4. p.risk_thresholds[level] = IntValue(from, level, DefaultThresholds[level])
      BY <1>6, <1>9, <2>1
    <3> QED BY <1>4, <2>1, <3>3, <3>4, Zenon
  <2>4. Repeats(to, from, Levels)
    BY <2>3 DEF Repeats
  <2> QED BY <2>1, <2>4, Zenon
<1>10. ASSUME NEW r \in DOMAIN p.rules
       PROVE  Repeats(At(back, "rules")[2][r], list[r], RuleFields)
  <2>1. At(back, "rules")[2][r] = RuleToJson(RuleFromJson(list[r]))
    BY <1>2, <1>4
  <2>2. Repeats(RuleToJson(RuleFromJson(list[r])), list[r], RuleFields)
    BY <1>2, RuleRepeats
  <2> QED BY <2>1, <2>2, Zenon
<1> QED BY <1>1, <1>2, <1>3, <1>8, <1>9, <1>10, Zenon

(* Nothing that the code knows is lost between the files and what is       *)
(* loaded (PolicyLoader.cpp:46-91, Event.cpp:37-119).                      *)
THEOREM LoadedAlwaysSaysWhatFilesSay == Spec => []LoadedSaysWhatFilesSay
<1>1. ArgsInv /\ LoadInv => LoadedSaysWhatFilesSay
  <2> SUFFICES ASSUME ArgsInv, LoadInv PROVE LoadedSaysWhatFilesSay
    OBVIOUS
  <2>1. ASSUME policy # NoValue
        PROVE  LET from == Content(PolicyFile)
                   back == PolicyToJson(policy)
               IN /\ Repeats(back, from, {"policy_version", "mode"})
                  /\ Has(from, "risk_thresholds") =>
                       Repeats(At(back, "risk_thresholds"), At(from, "risk_thresholds"), Levels)
                  /\ Len(policy.rules) = Len(At(from, "rules")[2])
                  /\ \A r \in DOMAIN policy.rules :
                       Repeats(At(back, "rules")[2][r], At(from, "rules")[2][r], RuleFields)
    <3>1. /\ Content(PolicyFile) \in Json /\ ~PolicyThrows(Content(PolicyFile))
          /\ policy = PolicyFromJson(Content(PolicyFile))
      BY <2>1, LoadedPolicy DEF LoadInv
    <3>2. PICK from : from = Content(PolicyFile)
      OBVIOUS
    <3> QED BY <3>1, <3>2, PolicyRepeats, Zenon
  <2>2. ASSUME NEW i \in DOMAIN events
        PROVE  Repeats(EventToJson(events[i]), Items[i],
                       IF KnownType(Items[i]) THEN EventFields ELSE EventFields \ {"event_type"})
    <3>1. /\ Items[i] \in Json /\ ~EventThrows(Items[i])
          /\ events[i] = EventFromJson(Items[i])
      BY LoadedEvents
    <3> QED BY <3>1, EventRepeats, Zenon
  <2> QED BY <2>1, <2>2, Zenon DEF LoadedSaysWhatFilesSay
<1> QED BY <1>1, StartupArgsInvariant, StartupLoadInvariant, PTL
-----------------------------------------------------------------------------
LEMMA RulesAreTyped ==
  ASSUME NEW p, TypedPolicy(p)
  PROVE  TypedRules(p)
<1>1. PICK rules : rules = p.rules /\ Len(rules) \in Nat /\ DOMAIN rules = 1..Len(rules)
                   /\ rules = [r \in DOMAIN rules |-> rules[r]]
  BY Zenon DEF TypedPolicy
<1>a. PICK n \in Nat : n = Len(rules) /\ DOMAIN rules = 1..n /\ rules = [r \in 1..n |-> rules[r]]
  BY <1>1, Zenon
<1>2. rules \in Seq(Range(rules))
  BY <1>a, SequenceOfItsRange
<1>3. \A r \in DOMAIN p.rules : p.rules[r].risk_points \in Int
  BY DEF TypedPolicy, TypedRule, IntType
<1> QED BY <1>1, <1>2, <1>3, Zenon DEF TypedRules

(* The rule behind a position in a loaded policy.                          *)
LEMMA LoadedRule ==
  ASSUME ArgsInv, LoadInv, NEW i \in DOMAIN events, NEW r \in DOMAIN policy.rules
  PROVE  LET rule == At(Content(PolicyFile), "rules")[2][r]
         IN /\ rule \in Json /\ ~RuleThrows(rule)
            /\ policy.rules[r] = RuleFromJson(rule) /\ TypedRules(policy)
<1>1. PolicyRead
  BY LoadedEvents
<1>2. PICK j : /\ j = Content(PolicyFile) /\ j \in Json /\ ~PolicyThrows(j)
               /\ policy = PolicyFromJson(j) /\ TypedPolicy(policy)
  BY <1>1, LoadedPolicy
<1>3. /\ List(j, "rules") = At(j, "rules")[2]
      /\ DOMAIN policy.rules = DOMAIN List(j, "rules")
      /\ \A q \in DOMAIN List(j, "rules") :
           /\ List(j, "rules")[q] \in Json /\ ~RuleThrows(List(j, "rules")[q])
           /\ policy.rules[q] = RuleFromJson(List(j, "rules")[q])
  BY <1>2, PolicyIsTyped
<1>4. PICK p : p = policy /\ TypedPolicy(p)
  BY <1>2
<1>5. TypedRules(p)
  BY <1>4, RulesAreTyped
<1> QED BY <1>2, <1>3, <1>4, <1>5, Zenon

(* A rule and an event see each other if they are of one type, and then by *)
(* the matcher of that type.                                               *)
LEMMA TypesMeet ==
  ASSUME NEW item, NEW rule, NEW e, e = EventFromJson(item), NEW c, c = RuleFromJson(rule)
  PROVE  /\ \A type \in EventTypes :
              (e.event_type = type /\ Hits(c, e) # {}) => OfType(type, item, rule)
         /\ OfType("FILE_ACCESS", item, rule) => Hits(c, e) = FileHits(c, e)
         /\ OfType("NET_CONNECT", item, rule) => Hits(c, e) = NetworkHits(c, e)
<1>1. c.event_type = TextValue(rule, "event_type", <<>>)
  <2>1. "event_type" \in RuleTexts \ {"severity"}
    BY DEF RuleTexts
  <2> QED BY <2>1, FieldsOfRule
<1>2. PICK text : text = TextValue(item, "event_type", <<"UNKNOWN">>)
  OBVIOUS
<1>3. e.event_type = EventTypeFromString(text)
  BY <1>2, FieldsOfEvent
<1>4. ASSUME NEW type \in EventTypes, e.event_type = type, Hits(c, e) # {}
      PROVE  OfType(type, item, rule)
  <2>1. c.event_type = <<type>>
    BY <1>4 DEF Hits, EventTypeToString
  <2>2. text = <<type>>
    BY <1>3, <1>4, CodeTokens DEF EventTypeFromString, EventTypes
  <2> QED BY <1>1, <1>2, <2>1, <2>2, Zenon DEF OfType
<1>5. ASSUME NEW type \in EventTypes, OfType(type, item, rule)
      PROVE  e.event_type = type /\ c.event_type = EventTypeToString(e.event_type)
  <2>1. text = <<type>> /\ c.event_type = <<type>>
    BY <1>1, <1>2, <1>5, Zenon DEF OfType
  <2>2. EventTypeToString(type) = <<type>> /\ EventTypeFromString(<<type>>) = type
    BY EventTypeNames
  <2> QED BY <1>3, <2>1, <2>2, Zenon
<1>6. "FILE_ACCESS" \in EventTypes /\ "NET_CONNECT" \in EventTypes
  BY DEF EventTypes
<1>7. ASSUME OfType("FILE_ACCESS", item, rule) PROVE Hits(c, e) = FileHits(c, e)
  <2>1. e.event_type = "FILE_ACCESS" /\ c.event_type = EventTypeToString(e.event_type)
    BY <1>5, <1>6, <1>7, Zenon
  <2> QED BY <2>1 DEF Hits
<1>8. ASSUME OfType("NET_CONNECT", item, rule) PROVE Hits(c, e) = NetworkHits(c, e)
  <2>1. e.event_type = "NET_CONNECT" /\ c.event_type = EventTypeToString(e.event_type)
    BY <1>5, <1>6, <1>8, Zenon
  <2> QED BY <2>1 DEF Hits
<1> QED BY <1>4, <1>7, <1>8, Zenon

(* An access hits the rules that list its path, and no others.             *)
LEMMA FilesAreArmed ==
  ASSUME NEW item \in Json, ~EventThrows(item), NEW rule \in Json, ~RuleThrows(rule),
         NEW e, e = EventFromJson(item), NEW c, c = RuleFromJson(rule)
  PROVE  FileHits(c, e) # {} <=>
           /\ Present(item, "file_path")
           /\ At(item, "file_path") \in Range(List(rule, "sensitive_paths"))
<1>1. PICK list : list = List(rule, "sensitive_paths")
  OBVIOUS
<1>2. "file_path" \in OptionalTexts /\ "sensitive_paths" \in TextLists
  BY DEF OptionalTexts, TextLists
<1>3. PICK s : s = c.sensitive_paths /\ s = [q \in DOMAIN list |-> TextOf(list[q])]
  <2>1. RuleFromJson(rule)["sensitive_paths"]
          = [q \in DOMAIN List(rule, "sensitive_paths") |-> TextOf(List(rule, "sensitive_paths")[q])]
    BY <1>2, FieldsOfRule
  <2> QED BY <1>1, <2>1, Zenon
<1>4. DOMAIN s = DOMAIN list
      /\ \A q \in DOMAIN list : list[q] = Text(s[q])
  <2>1. ~ListThrows(rule, "sensitive_paths", TextKinds)
    BY <1>2 DEF RuleThrows
  <2>2. \A q \in DOMAIN list : list[q] = Text(TextOf(list[q]))
    BY <1>1, <2>1, PatternFacts
  <2> QED BY <1>3, <2>2
<1>5. e.file_path = IF Present(item, "file_path") THEN TextOf(At(item, "file_path")) ELSE NoValue
  BY <1>2, FieldsOfEvent
<1>6. Present(item, "file_path") =>
        e.file_path # NoValue /\ At(item, "file_path") = Text(e.file_path)
  <2>1. IsObject(item)
    BY EventIsTyped
  <2>2. Present(item, "file_path") => At(item, "file_path")[1] \in TextKinds
    BY <1>2 DEF EventThrows
  <2>3. Present(item, "file_path") => /\ TextOf(At(item, "file_path")) \in Seq(STRING)
                                      /\ At(item, "file_path") = Text(TextOf(At(item, "file_path")))
    BY <2>1, <2>2, OptionalTextFacts
  <2> QED BY <1>5, <2>3, NoValueIsNone
<1>7. \A x, y : Text(x) = Text(y) => x = y
  BY DEF Text
<1>8. FileHits(c, e) # {} <=> e.file_path # NoValue /\ \E q \in DOMAIN list : e.file_path = s[q]
  BY <1>3, <1>4 DEF FileHits
<1>9. At(item, "file_path") \in Range(list) <=> \E q \in DOMAIN list : At(item, "file_path") = list[q]
  BY DEF Range
<1>10. CASE Present(item, "file_path")
  <2>1. PICK text : text = e.file_path /\ At(item, "file_path") = Text(text)
    BY <1>6, <1>10
  <2>2. \A q \in DOMAIN list : Text(text) = list[q] <=> text = s[q]
    BY <1>4, <1>7, Zenon
  <2> QED BY <1>1, <1>6, <1>8, <1>9, <1>10, <2>1, <2>2, Zenon
<1>11. CASE ~Present(item, "file_path")
  BY <1>5, <1>8, <1>11, Zenon
<1> QED BY <1>10, <1>11

(* A connection hits the rules that list its port, and others only if a    *)
(* number of one of the two is no integer that fits.                       *)
LEMMA PortsAreArmed ==
  ASSUME NEW item \in Json, ~EventThrows(item), NEW rule \in Json, ~RuleThrows(rule),
         NEW e, e = EventFromJson(item), NEW c, c = RuleFromJson(rule),
         NEW listed, listed = Range(List(rule, "restricted_ports")),
         NEW port, port = At(item, "dest_port")
  PROVE  /\ (Present(item, "dest_port") /\ port \in listed) => NetworkHits(c, e) # {}
         /\ NetworkHits(c, e) # {} =>
              /\ Present(item, "dest_port")
              /\ port \in listed \/ \E p \in listed : ~(Plain(p) /\ Plain(port))
<1>1. PICK list : list = List(rule, "restricted_ports")
  OBVIOUS
<1>2. "dest_port" \in OptionalInts
  BY DEF OptionalInts
<1>3. PICK s : s = c.restricted_ports /\ s = [q \in DOMAIN list |-> IntOf(list[q])]
  BY <1>1, FieldsOfRule
<1>4. DOMAIN s = DOMAIN list
      /\ \A q \in DOMAIN list : s[q] = IntOf(list[q]) /\ (Plain(list[q]) => list[q] = Number(s[q]))
  <2>1. ~ListThrows(rule, "restricted_ports", NumberKinds)
    BY DEF RuleThrows
  <2>2. \A q \in DOMAIN list : Plain(list[q]) => list[q] = Number(IntOf(list[q]))
    BY <1>1, <2>1, PatternFacts
  <2> QED BY <1>3, <2>2
<1>5. e.dest_port = IF Present(item, "dest_port") THEN IntOf(port) ELSE NoValue
  BY <1>2, FieldsOfEvent
<1>6. Present(item, "dest_port") =>
        e.dest_port # NoValue /\ (Plain(port) => port = Number(e.dest_port))
  <2>1. IsObject(item)
    BY EventIsTyped
  <2>2. Present(item, "dest_port") => At(item, "dest_port")[1] \in NumberKinds
    BY <1>2 DEF EventThrows
  <2>3. Present(item, "dest_port") => /\ IntOf(port) \in IntType
                                      /\ Plain(port) => port = Number(IntOf(port))
    BY <2>1, <2>2, OptionalIntFacts
  <2> QED BY <1>5, <2>3, NoValueIsNone DEF IntType
<1>7. NetworkHits(c, e) # {} <=> e.dest_port # NoValue /\ \E q \in DOMAIN list : e.dest_port = s[q]
  BY <1>3, <1>4 DEF NetworkHits
<1>8. \A p : p \in listed <=> \E q \in DOMAIN list : p = list[q]
  BY <1>1 DEF Range
<1>9. ASSUME Present(item, "dest_port"), port \in listed PROVE NetworkHits(c, e) # {}
  <2>1. PICK q \in DOMAIN list : port = list[q]
    BY <1>8, <1>9
  <2>2. e.dest_port = s[q]
    BY <1>4, <1>5, <1>9, <2>1, Zenon
  <2> QED BY <1>6, <1>7, <1>9, <2>2, Zenon
<1>10. ASSUME NetworkHits(c, e) # {}
       PROVE  /\ Present(item, "dest_port")
              /\ port \in listed \/ \E p \in listed : ~(Plain(p) /\ Plain(port))
  <2>1. Present(item, "dest_port")
    BY <1>5, <1>7, <1>10, Zenon
  <2>2. PICK q \in DOMAIN list : e.dest_port = s[q]
    BY <1>7, <1>10
  <2>3. list[q] \in listed
    BY <1>8, <2>2
  <2>4. CASE Plain(list[q]) /\ Plain(port)
    <3>1. list[q] = Number(s[q]) /\ port = Number(e.dest_port)
      BY <1>4, <1>6, <2>1, <2>2, <2>4, Zenon
    <3> QED BY <2>1, <2>2, <2>3, <3>1, Zenon
  <2> QED BY <2>1, <2>3, <2>4, Zenon
<1> QED BY <1>9, <1>10, Zenon

(* What PatternsAreArmed says of a rule and an event.                      *)
ArmedFor(item, rule, r, matched, type) ==
  /\ (NamesFile(item, rule) \/ NamesPort(item, rule)) => r \in matched
  /\ (r \in matched /\ type \in {"FILE_ACCESS", "NET_CONNECT"}) =>
       NamesFile(item, rule) \/ NamesPort(item, rule) \/ NarrowsPort(item, rule)

(* Every pattern of a policy file is armed, and no others are              *)
(* (PolicyLoader.cpp:10-42, Event.cpp:52-62, RiskEvaluator.cpp:97-139).    *)
THEOREM PatternsAreAlwaysArmed == Spec => []PatternsAreArmed
<1>1. ASSUME ArgsInv, LoadInv, NEW i \in DOMAIN events, NEW r \in DOMAIN policy.rules,
             NEW item, item = Items[i],
             NEW rule, rule = At(Content(PolicyFile), "rules")[2][r],
             NEW matched, matched = {m.rule : m \in Range(Evaluate(policy, events[i]).matches)}
      PROVE  ArmedFor(item, rule, r, matched, events[i].event_type)
  <2>1. PICK e : e = events[i] /\ e = EventFromJson(item) /\ item \in Json /\ ~EventThrows(item)
    BY <1>1, LoadedEvents
  <2>2. PICK c, p : /\ p = policy /\ c = policy.rules[r] /\ c = RuleFromJson(rule)
                    /\ rule \in Json /\ ~RuleThrows(rule) /\ TypedRules(p)
    BY <1>1, LoadedRule, Zenon
  <2>3. r \in matched <=> Hits(c, e) # {}
    <3>1. {m.rule : m \in Range(Evaluate(p, e).matches)}
            = {q \in DOMAIN p.rules : Hits(p.rules[q], e) # {}}
      BY <2>2, MatchedRulesAreHit
    <3>2. matched = {q \in DOMAIN p.rules : Hits(p.rules[q], e) # {}}
      BY <1>1, <2>1, <2>2, <3>1, Zenon
    <3> QED BY <1>1, <2>2, <3>2
  <2>4. /\ \A type \in EventTypes :
             (e.event_type = type /\ Hits(c, e) # {}) => OfType(type, item, rule)
        /\ OfType("FILE_ACCESS", item, rule) => Hits(c, e) = FileHits(c, e)
        /\ OfType("NET_CONNECT", item, rule) => Hits(c, e) = NetworkHits(c, e)
    <3>1. e = EventFromJson(item) /\ c = RuleFromJson(rule)
      BY <2>1, <2>2
    <3> QED BY <3>1, TypesMeet
  <2>5. OfType("FILE_ACCESS", item, rule) => (Hits(c, e) # {} <=> NamesFile(item, rule))
    <3>1. FileHits(c, e) # {} <=>
            /\ Present(item, "file_path")
            /\ At(item, "file_path") \in Range(List(rule, "sensitive_paths"))
      BY <2>1, <2>2, FilesAreArmed, Zenon
    <3> QED BY <2>4, <3>1, Zenon DEF NamesFile
  <2>6. OfType("NET_CONNECT", item, rule) =>
          /\ NamesPort(item, rule) => Hits(c, e) # {}
          /\ Hits(c, e) # {} => NamesPort(item, rule) \/ NarrowsPort(item, rule)
    <3>1. PICK listed, port : /\ listed = Range(List(rule, "restricted_ports"))
                              /\ port = At(item, "dest_port")
      OBVIOUS
    <3>2. /\ (Present(item, "dest_port") /\ port \in listed) => NetworkHits(c, e) # {}
          /\ NetworkHits(c, e) # {} =>
               /\ Present(item, "dest_port")
               /\ port \in listed \/ \E q \in listed : ~(Plain(q) /\ Plain(port))
      BY <2>1, <2>2, <3>1, PortsAreArmed, Zenon
    <3> QED BY <2>4, <3>1, <3>2, Zenon DEF NamesPort, NarrowsPort
  <2>7. ASSUME NamesFile(item, rule) \/ NamesPort(item, rule) PROVE r \in matched
    BY <2>3, <2>5, <2>6, <2>7, Zenon DEF NamesFile, NamesPort
  <2>8. ASSUME r \in matched, e.event_type \in {"FILE_ACCESS", "NET_CONNECT"}
        PROVE  NamesFile(item, rule) \/ NamesPort(item, rule) \/ NarrowsPort(item, rule)
    <3>1. "FILE_ACCESS" \in EventTypes /\ "NET_CONNECT" \in EventTypes
      BY DEF EventTypes
    <3>2. e.event_type = "FILE_ACCESS" \/ e.event_type = "NET_CONNECT"
      BY <2>8
    <3>3. OfType("FILE_ACCESS", item, rule) \/ OfType("NET_CONNECT", item, rule)
      BY <2>3, <2>4, <2>8, <3>1, <3>2, Zenon
    <3> QED BY <2>3, <2>5, <2>6, <2>8, <3>3, Zenon
  <2> QED BY <2>1, <2>7, <2>8, Zenon DEF ArmedFor
<1>2. ArgsInv /\ LoadInv => PatternsAreArmed
  <2> SUFFICES ASSUME ArgsInv, LoadInv, NEW i \in DOMAIN events, NEW r \in DOMAIN policy.rules
               PROVE  ArmedFor(Items[i], At(Content(PolicyFile), "rules")[2][r], r,
                               {m.rule : m \in Range(Evaluate(policy, events[i]).matches)},
                               events[i].event_type)
    BY DEF PatternsAreArmed, ArmedFor
  <2> QED BY <1>1, Zenon
<1> QED BY <1>2, StartupArgsInvariant, StartupLoadInvariant, PTL
=============================================================================
