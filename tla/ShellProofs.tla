---------------------------- MODULE ShellProofs ----------------------------
(***************************************************************************)
(* The shell's register of files, for every set of files, every content of *)
(* theirs, and every error at every point.                                 *)
(*                                                                         *)
(* A call is pushed only for a file that is not registered, and registers  *)
(* it; a call that ends takes away its own file, which no other call has;  *)
(* and an exception takes away all calls, so what it leaves in _processing *)
(* can refuse a file but cannot make a call lose its registration.         *)
(*                                                                         *)
(* Then what follows from it for a file that is read again, and the limit  *)
(* of :trace.                                                              *)
(***************************************************************************)
EXTENDS Shell, TLAPS

DefsTheory == INSTANCE DefinitionsProofs

Call == [file : Files, noisy : BOOLEAN, printed : BOOLEAN]

\* The types the argument needs.
CallTypes ==
    /\ scripts \in Seq(Calls)
    /\ calls \in Seq(Call)
    /\ pending \in {NoInput, Expression} \cup (Files \X BOOLEAN)

\* Printing changes no call's file.
LEMMA PrintedKeepsFiles ==
    ASSUME calls \in Seq(Call)
    PROVE  /\ Printed \in Seq(Call)
           /\ DOMAIN Printed = DOMAIN calls
           /\ \A i \in DOMAIN calls : Printed[i].file = calls[i].file
<1>1. CASE Printed = calls
  BY <1>1
<1>2. CASE Printed # calls
  <2> DEFINE silent == {i \in DOMAIN calls : ~calls[i].noisy}
             at == CHOOSE i \in silent : \A j \in silent : j <= i
  <2>1. Printed = [calls EXCEPT ![at].printed = TRUE]
    BY <1>2 DEF Printed
  <2> HIDE DEF at
  <2>2. /\ Len(calls) \in Nat
        /\ DOMAIN calls = 1 .. Len(calls)
        /\ \A i \in 1 .. Len(calls) : calls[i] \in Call
    OBVIOUS
  <2>3. ASSUME NEW c \in Call
        PROVE  [c EXCEPT !.printed = TRUE] \in Call /\ [c EXCEPT !.printed = TRUE].file = c.file
    BY DEF Call
  <2>4. \A i \in 1 .. Len(calls) :
            Printed[i] = IF i = at THEN [calls[i] EXCEPT !.printed = TRUE] ELSE calls[i]
    BY <2>1, <2>2
  <2>5. \A i \in 1 .. Len(calls) : Printed[i] \in Call /\ Printed[i].file = calls[i].file
    BY <2>2, <2>3, <2>4
  <2>6. DOMAIN Printed = 1 .. Len(calls) /\ Printed = [i \in 1 .. Len(calls) |-> Printed[i]]
    BY <2>1, <2>2
  <2>7. Printed \in [1 .. Len(calls) -> Call]
    BY <2>5, <2>6
  <2>8. QED
    BY <2>2, <2>5, <2>6, <2>7
<1>3. QED
  BY <1>1, <1>2

\* A new call is pushed for a file that no call is reading.
LEMMA OpenFileRegisters ==
    ASSUME CallTypes, CallsAreRegistered,
           NEW file \in Files, NEW shown \in BOOLEAN, OpenFile(file, shown)
    PROVE  calls' \in Seq(Call) /\ CallsAreRegistered'
<1> DEFINE call == [file |-> file, noisy |-> shown, printed |-> FALSE]
<1>1. call \in Call
  BY DEF Call
<1>2. calls' = Append(calls, call) /\ processing' = processing \cup {file} /\ file \notin processing
  BY DEF OpenFile
<1>3. calls' \in Seq(Call)
  BY <1>1, <1>2 DEF CallTypes
<1>4. /\ DOMAIN calls' = 1 .. (Len(calls) + 1)
      /\ calls'[Len(calls) + 1].file = file
      /\ \A i \in 1 .. Len(calls) : calls'[i] = calls[i]
  BY <1>1, <1>2 DEF CallTypes
<1>5. \A i \in 1 .. Len(calls) : calls[i].file \in processing
  BY DEF CallsAreRegistered, CallTypes
<1>6. ASSUME NEW i \in DOMAIN calls', NEW j \in DOMAIN calls'
      PROVE  calls'[i].file \in processing' /\ (calls'[i].file = calls'[j].file => i = j)
  <2>1. CASE i \in 1 .. Len(calls) /\ j \in 1 .. Len(calls)
    BY <2>1, <1>2, <1>4 DEF CallsAreRegistered, CallTypes
  <2>2. CASE i = Len(calls) + 1 /\ j \in 1 .. Len(calls)
    BY <2>2, <1>2, <1>4, <1>5
  <2>3. CASE i \in 1 .. Len(calls) /\ j = Len(calls) + 1
    BY <2>3, <1>2, <1>4, <1>5
  <2>4. CASE i = Len(calls) + 1 /\ j = Len(calls) + 1
    BY <2>4, <1>2, <1>4
  <2>5. QED
    BY <2>1, <2>2, <2>3, <2>4, <1>4 DEF CallTypes
<1>7. QED
  BY <1>3, <1>6 DEF CallsAreRegistered

\* After an exception nothing is being read.
LEMMA ThrowLeavesAll ==
    ASSUME CallTypes, NEW error, Throw(error)
    PROVE  CallTypes' /\ CallsAreRegistered'
<1>1. calls' = <<>> /\ scripts' = scripts
  BY DEF Throw, console
<1>2. pending' \in {NoInput, Expression} \cup (Files \X BOOLEAN)
  <2>1. CASE calls = <<>>
    BY <2>1 DEF Throw, InputSoFar
  <2>2. CASE calls # <<>>
    <3>1. calls[1] \in Call
      BY <2>2 DEF CallTypes
    <3>2. QED
      BY <2>2, <3>1 DEF Throw, InputSoFar, Call
  <2>3. QED
    BY <2>1, <2>2
<1>3. QED
  BY <1>1, <1>2 DEF CallTypes, CallsAreRegistered

\* The end of a file takes its registration, which no other call needs.
LEMMA EndOfFileKeeps ==
    ASSUME CallTypes, CallsAreRegistered, NEW file \in Files, EndOfFile(file)
    PROVE  CallTypes' /\ CallsAreRegistered'
<1>1. CASE \E error : Throw(error)
  BY <1>1, ThrowLeavesAll
<1>2. CASE ~ \E error : Throw(error)
  <2>1. /\ calls # <<>>
        /\ calls[Len(calls)].file = file
        /\ processing' = processing \ {file}
        /\ calls' = SubSeq(calls, 1, Len(calls) - 1)
        /\ UNCHANGED <<scripts, pending>>
    BY <1>2 DEF EndOfFile, console
  <2>2. Len(calls) \in Nat \ {0}
    BY <2>1 DEF CallTypes
  <2>3. /\ calls' \in Seq(Call)
        /\ DOMAIN calls' = 1 .. (Len(calls) - 1)
        /\ \A i \in 1 .. (Len(calls) - 1) : calls'[i] = calls[i]
    BY <2>1, <2>2 DEF CallTypes
  <2>4. \A i \in 1 .. (Len(calls) - 1) : calls[i].file # file /\ calls[i].file \in processing
    BY <2>1, <2>2, SMTT(30) DEF CallsAreRegistered, CallTypes
  <2>5. CallsAreRegistered'
    BY <2>1, <2>2, <2>3, <2>4, SMTT(30) DEF CallsAreRegistered, CallTypes
  <2>6. QED
    BY <2>1, <2>3, <2>5 DEF CallTypes
<1>3. QED
  BY <1>1, <1>2

\* The register's invariant, with the types it needs.
LEMMA CallsInvariant == Spec => [](CallTypes /\ CallsAreRegistered)
<1>1. Init => CallTypes /\ CallsAreRegistered
  <2>1. SUFFICES ASSUME Init PROVE CallTypes /\ CallsAreRegistered
    OBVIOUS
  <2>2. scripts \in Seq(Calls)
    <3>1. PICK files \in UNION {[1 .. n -> Files] : n \in 0 .. MaxScripts}, shown \in BOOLEAN :
              scripts = [i \in DOMAIN files |-> [file |-> files[i], noisy |-> shown]]
      BY <2>1 DEF Init
    <3>2. PICK n \in 0 .. MaxScripts : files \in [1 .. n -> Files]
      OBVIOUS
    <3>3. scripts \in [1 .. n -> Calls]
      BY <3>1, <3>2 DEF Calls
    <3>4. n \in Nat
      BY <3>2, ShellAssumption
    <3>5. QED
      BY <3>3, <3>4
  <2>3. QED
    BY <2>1, <2>2 DEF Init, CallTypes, CallsAreRegistered
<1>2. CallTypes /\ CallsAreRegistered /\ [Next]_vars => (CallTypes /\ CallsAreRegistered)'
  <2> SUFFICES ASSUME CallTypes, CallsAreRegistered, [Next]_vars
               PROVE  CallTypes' /\ CallsAreRegistered'
    OBVIOUS
  <2>1. ASSUME NEW file \in Files, NEW shown \in BOOLEAN, ProcessFile(file, shown)
        PROVE  CallTypes' /\ CallsAreRegistered'
    <3>1. CASE OpenFile(file, shown) /\ UNCHANGED scripts
      <4>1. pending' = NoInput
        BY <3>1 DEF OpenFile
      <4>2. QED
        BY <3>1, <4>1, OpenFileRegisters DEF CallTypes
    <3>2. CASE RefuseFile(file) \/ FileNotFound
      BY <3>2, ThrowLeavesAll DEF RefuseFile, FileNotFound
    <3>3. QED
      BY <2>1, <3>1, <3>2 DEF ProcessFile
  <2>2. ASSUME calls' = Printed, processing' = processing, scripts' = scripts,
               pending' \in {pending, NoInput}
        PROVE  CallTypes' /\ CallsAreRegistered'
    BY <2>2, PrintedKeepsFiles DEF CallTypes, CallsAreRegistered
  <2>3. ASSUME calls' = calls, processing' = processing, scripts' = scripts,
               pending' \in {pending, NoInput}
        PROVE  CallTypes' /\ CallsAreRegistered'
    BY <2>3 DEF CallTypes, CallsAreRegistered
  <2>4. CASE NextScript
    <3>1. Head(scripts).file \in Files /\ Head(scripts).noisy \in BOOLEAN /\ Tail(scripts) \in Seq(Calls)
      <4>1. Head(scripts) \in Calls /\ Tail(scripts) \in Seq(Calls)
        BY <2>4 DEF NextScript, CallTypes
      <4>2. QED
        BY <4>1 DEF Calls
    <3>2. CASE OpenFile(Head(scripts).file, Head(scripts).noisy) /\ scripts' = Tail(scripts)
      <4>1. pending' = NoInput
        BY <3>2 DEF OpenFile
      <4>2. calls' \in Seq(Call) /\ CallsAreRegistered'
        BY <3>1, <3>2, OpenFileRegisters
      <4>3. QED
        BY <3>1, <3>2, <4>1, <4>2 DEF CallTypes
    <3>3. CASE RefuseFile(Head(scripts).file) \/ FileNotFound
      BY <3>3, ThrowLeavesAll DEF RefuseFile, FileNotFound
    <3>4. QED
      BY <2>4, <3>2, <3>3 DEF NextScript
  <2>5. CASE ScriptsDone
    BY <2>3, <2>5 DEF ScriptsDone, console
  <2>6. CASE Statement
    <3>1. ASSUME NEW e \in Defs!Results, Evaluate(e)
          PROVE  CallTypes' /\ CallsAreRegistered'
      BY <2>2, <3>1 DEF Evaluate, console
    <3>2. CASE StartTrace
      BY <2>3, <3>2 DEF StartTrace, console
    <3>3. CASE EndOfInput
      BY <3>3, ThrowLeavesAll DEF EndOfInput
    <3>4. ASSUME NEW error \in Errors, Failure(error)
          PROVE  CallTypes' /\ CallsAreRegistered'
      BY <3>4, ThrowLeavesAll DEF Failure
    <3>5. CASE EndlessProgram \/ UnendedComment
      BY <2>3, <3>5 DEF EndlessProgram, UnendedComment, console
    <3>6. ASSUME NEW n \in Names \cup {"it"}, NEW e \in Defs!Readable, Def(n, e)
          PROVE  CallTypes' /\ CallsAreRegistered'
      BY <2>3, <3>6 DEF Def, console
    <3>7. ASSUME NEW n \in DOMAIN Constants, RefuseDef(n)
          PROVE  CallTypes' /\ CallsAreRegistered'
      BY <3>7, ThrowLeavesAll DEF RefuseDef
    <3>8. ASSUME NEW file \in Files, NEW shown \in BOOLEAN, FileCommand(file, shown)
          PROVE  CallTypes' /\ CallsAreRegistered'
      BY <2>1, <3>8 DEF FileCommand
    <3>9. ASSUME NEW limit \in TraceLimits \cup {0}, SetTrace(limit)
          PROVE  CallTypes' /\ CallsAreRegistered'
      BY <2>3, <3>9 DEF SetTrace, console
    <3>10. CASE BadTrace
      BY <3>10, ThrowLeavesAll DEF BadTrace
    <3>11. CASE Show
      BY <2>2, <3>11 DEF Show, console
    <3>12. CASE Exit
      BY <2>3, <3>12 DEF Exit, console
    <3>13. CASE Again
      <4>1. pending[1] \in Files /\ pending[2] \in BOOLEAN
        BY <3>13 DEF Again, CallTypes
      <4>2. QED
        BY <2>1, <3>13, <4>1 DEF Again
    <3>14. QED
      BY <2>6, <3>1, <3>2, <3>3, <3>4, <3>5, <3>6, <3>7, <3>8, <3>9, <3>10, <3>11, <3>12, <3>13
         DEF Statement
  <2>7. CASE TraceStep
    <3>1. PICK e \in Defs!Results, more \in BOOLEAN : Trace(e, more)
      BY <2>7 DEF TraceStep
    <3>2. QED
      BY <2>2, <3>1 DEF Trace, console
  <2>8. ASSUME NEW file \in Files, EndOfFile(file)
        PROVE  CallTypes' /\ CallsAreRegistered'
    BY <2>8, EndOfFileKeeps
  <2>9. CASE UNCHANGED vars
    BY <2>3, <2>9 DEF vars, console
  <2>10. QED
    BY <2>4, <2>5, <2>6, <2>7, <2>8, <2>9 DEF Next
<1>3. QED
  BY <1>1, <1>2, PTL DEF Spec

\* No file is being read twice at once and every file being read is registered,
\* however many files there are, whatever they hold and whatever fails.
THEOREM FilesAreRegistered == Spec => []CallsAreRegistered
BY CallsInvariant, PTL

-----------------------------------------------------------------------------
(***************************************************************************)
(* A file that ended inside an expression waits at the prompt only while   *)
(* no file is being read, so nothing registers or unregisters it meanwhile.*)
(***************************************************************************)
RetriedInv == (calls # <<>> => pending = NoInput) /\ RetriedFiles

\* What is typed is no file.
LEMMA NoFileWaits ==
    ASSUME NEW waits \in {NoInput, Expression}
    PROVE  waits \notin Files \X BOOLEAN
<1>1. \A w \in Files \X BOOLEAN : Len(w) = 2
  OBVIOUS
<1>2. Len(NoInput) = 0 /\ Len(Expression) = 1
  BY DEF NoInput, Expression
<1>3. QED
  BY <1>1, <1>2

\* An exception leaves the first call's file registered exactly if it was
\* included: no other call has the same file.
LEMMA ThrowRetries ==
    ASSUME CallTypes, CallsAreRegistered, NEW error, Throw(error)
    PROVE  RetriedInv'
<1>1. calls' = <<>> /\ processing' = Unwound
  BY DEF Throw
<1>2. CASE pending' \in {NoInput, Expression}
  BY <1>1, <1>2, NoFileWaits DEF RetriedInv, RetriedFiles
<1>3. CASE pending' \notin {NoInput, Expression}
  <2>1. calls # <<>> /\ pending' = <<calls[1].file, calls[1].noisy>>
    BY <1>3 DEF Throw, InputSoFar
  <2>2. 1 \in DOMAIN calls /\ calls[1] \in Call
    BY <2>1 DEF CallTypes
  <2>3. \A j \in DOMAIN calls : calls[j].file = calls[1].file => j = 1
    BY <2>2 DEF CallsAreRegistered
  <2>4. calls[1].file \in processing
    BY <2>2 DEF CallsAreRegistered
  <2>5. calls[1].noisy \in BOOLEAN
    BY <2>2 DEF Call
  <2>6. calls[1].noisy <=> calls[1].file \notin Unwound
    BY <2>2, <2>3, <2>4, <2>5 DEF Unwound
  <2>7. RetriedFiles'
    BY <1>1, <2>1, <2>6 DEF RetriedFiles
  <2>8. QED
    BY <1>1, <2>7 DEF RetriedInv
<1>4. QED
  BY <1>2, <1>3

\* A file that waits to be read again was processed and can be, or was included
\* and will be refused, for all files and every way to fail.
THEOREM RetriesAreForeseen == Spec => []RetriedFiles
<1>1. Init => RetriedInv
  BY NoFileWaits DEF Init, RetriedInv, RetriedFiles
<1>2. CallTypes /\ CallsAreRegistered /\ RetriedInv /\ [Next]_vars => RetriedInv'
  <2> SUFFICES ASSUME CallTypes, CallsAreRegistered, RetriedInv, [Next]_vars
               PROVE  RetriedInv'
    OBVIOUS
  <2>1. ASSUME pending' = NoInput
        PROVE  RetriedInv'
    BY <2>1, NoFileWaits DEF RetriedInv, RetriedFiles
  <2>2. ASSUME pending' = pending, processing' = processing, calls' = calls
        PROVE  RetriedInv'
    BY <2>2 DEF RetriedInv, RetriedFiles
  <2>3. ASSUME NEW error, Throw(error)
        PROVE  RetriedInv'
    BY <2>3, ThrowRetries
  <2>4. ASSUME NEW file, NEW shown, ProcessFile(file, shown)
        PROVE  RetriedInv'
    BY <2>1, <2>3, <2>4 DEF ProcessFile, OpenFile, RefuseFile, FileNotFound
  <2>5. CASE NextScript
    BY <2>1, <2>3, <2>5 DEF NextScript, OpenFile, RefuseFile, FileNotFound
  <2>6. CASE ScriptsDone
    BY <2>2, <2>6 DEF ScriptsDone
  <2>7. CASE Statement
    <3>1. ASSUME NEW e, Evaluate(e)
          PROVE  RetriedInv'
      BY <2>1, <3>1 DEF Evaluate
    <3>2. CASE StartTrace
      BY <2>1, <3>2 DEF StartTrace
    <3>3. CASE EndOfInput \/ BadTrace
      BY <2>3, <3>3 DEF EndOfInput, BadTrace
    <3>4. ASSUME NEW error, Failure(error)
          PROVE  RetriedInv'
      BY <2>3, <3>4 DEF Failure
    <3>5. CASE EndlessProgram \/ UnendedComment \/ Exit
      BY <2>2, <3>5 DEF EndlessProgram, UnendedComment, Exit
    <3>6. ASSUME NEW n, NEW e, Def(n, e)
          PROVE  RetriedInv'
      BY <2>2, <3>6 DEF Def
    <3>7. ASSUME NEW n, RefuseDef(n)
          PROVE  RetriedInv'
      BY <2>3, <3>7 DEF RefuseDef
    <3>8. ASSUME NEW file, NEW shown, FileCommand(file, shown)
          PROVE  RetriedInv'
      BY <2>4, <3>8 DEF FileCommand
    <3>9. ASSUME NEW limit, SetTrace(limit)
          PROVE  RetriedInv'
      BY <2>2, <3>9 DEF SetTrace
    <3>10. CASE Show
      BY <2>1, <3>10 DEF Show, MayCommand
    <3>11. CASE Again
      BY <2>4, <3>11 DEF Again
    <3>12. QED
      BY <2>7, <3>1, <3>2, <3>3, <3>4, <3>5, <3>6, <3>7, <3>8, <3>9, <3>10, <3>11 DEF Statement
  <2>8. CASE TraceStep
    <3>1. PICK e \in Defs!Results, more \in BOOLEAN : Trace(e, more)
      BY <2>8 DEF TraceStep
    <3>2. calls' = Printed /\ pending' = pending /\ processing' = processing
      BY <3>1 DEF Trace
    <3>3. calls = <<>> => calls' = <<>>
      BY <3>2 DEF Printed
    <3>4. QED
      BY <3>2, <3>3 DEF RetriedInv, RetriedFiles
  <2>9. ASSUME NEW file \in Files, EndOfFile(file)
        PROVE  RetriedInv'
    <3>1. CASE \E error : Throw(error)
      BY <2>3, <3>1
    <3>2. CASE ~ \E error : Throw(error)
      <4>1. calls # <<>> /\ pending' = pending
        BY <2>9, <3>2 DEF EndOfFile
      <4>2. QED
        BY <2>1, <4>1 DEF RetriedInv
    <3>3. QED
      BY <3>1, <3>2
  <2>10. CASE UNCHANGED vars
    BY <2>2, <2>10 DEF vars
  <2>11. QED
    BY <2>5, <2>6, <2>7, <2>8, <2>9, <2>10 DEF Next
<1>3. QED
  <2>1. RetriedInv => RetriedFiles
    BY DEF RetriedInv
  <2>2. QED
    BY <1>1, <1>2, <2>1, CallsInvariant, PTL DEF Spec

-----------------------------------------------------------------------------
(***************************************************************************)
(* The limit of a trace is not changed while the trace goes on, so that a  *)
(* count which goes up by one meets it.                                    *)
(***************************************************************************)
TraceTypes ==
    /\ niter \in Nat \cup {Idle}
    /\ trace_limit \in TraceLimits \cup {0}

TraceInv == TraceTypes /\ TraceIsBounded

\* A step of a trace counts one up from below the limit, and the limit only
\* changes between traces.
LEMMA TraceInvariant == Spec => []TraceInv
<1>1. Init => TraceInv
  BY DEF Init, TraceInv, TraceTypes, TraceIsBounded
<1>2. TraceInv /\ [Next]_vars => TraceInv'
  <2> SUFFICES ASSUME TraceInv, [Next]_vars
               PROVE  TraceInv'
    OBVIOUS
  <2>1. ASSUME niter' = niter, trace_limit' = trace_limit
        PROVE  TraceInv'
    BY <2>1 DEF TraceInv, TraceTypes, TraceIsBounded
  <2>2. ASSUME niter' = Idle, trace_limit' \in {trace_limit, 0} \cup TraceLimits
        PROVE  TraceInv'
    BY <2>2 DEF TraceInv, TraceTypes, TraceIsBounded
  <2>3. ASSUME NEW error, Throw(error), trace_limit' \in {trace_limit, 0}
        PROVE  TraceInv'
    BY <2>2, <2>3 DEF Throw
  <2>4. ASSUME NEW file, NEW shown, ProcessFile(file, shown)
        PROVE  TraceInv'
    BY <2>1, <2>3, <2>4 DEF ProcessFile, OpenFile, RefuseFile, FileNotFound
  <2>5. CASE NextScript
    BY <2>1, <2>3, <2>5 DEF NextScript, OpenFile, RefuseFile, FileNotFound
  <2>6. CASE ScriptsDone
    BY <2>1, <2>6 DEF ScriptsDone
  <2>7. CASE Statement
    <3>1. ASSUME NEW e, Evaluate(e)
          PROVE  TraceInv'
      BY <2>1, <3>1 DEF Evaluate
    <3>2. CASE StartTrace
      <4>1. niter' = 0 /\ trace_limit' = trace_limit /\ trace_limit > 0
        BY <3>2 DEF StartTrace
      <4>2. trace_limit \in Nat
        BY ShellAssumption DEF TraceInv, TraceTypes
      <4>3. QED
        BY <4>1, <4>2 DEF TraceInv, TraceTypes, TraceIsBounded
    <3>3. CASE EndOfInput \/ BadTrace
      BY <2>3, <3>3 DEF EndOfInput, BadTrace
    <3>4. ASSUME NEW error, Failure(error)
          PROVE  TraceInv'
      BY <2>3, <3>4 DEF Failure
    <3>5. CASE EndlessProgram \/ UnendedComment \/ Exit \/ Show
      BY <2>1, <3>5 DEF EndlessProgram, UnendedComment, Exit, Show
    <3>6. ASSUME NEW n, NEW e, Def(n, e)
          PROVE  TraceInv'
      BY <2>1, <3>6 DEF Def
    <3>7. ASSUME NEW n, RefuseDef(n)
          PROVE  TraceInv'
      BY <2>3, <3>7 DEF RefuseDef
    <3>8. ASSUME NEW file, NEW shown, FileCommand(file, shown)
          PROVE  TraceInv'
      BY <2>4, <3>8 DEF FileCommand
    <3>9. ASSUME NEW limit \in TraceLimits \cup {0}, SetTrace(limit)
          PROVE  TraceInv'
      BY <2>2, <3>9 DEF SetTrace, MayCommand, AtStatement
    <3>10. CASE Again
      BY <2>4, <3>10 DEF Again
    <3>11. QED
      BY <2>7, <3>1, <3>2, <3>3, <3>4, <3>5, <3>6, <3>7, <3>8, <3>9, <3>10 DEF Statement
  <2>8. CASE TraceStep
    <3>1. PICK e \in Defs!Results, more \in BOOLEAN : Trace(e, more)
      BY <2>8 DEF TraceStep
    <3>2. CASE GoesOn(more)
      <4>1. niter' = niter + 1 /\ trace_limit' = trace_limit /\ niter # Idle /\ niter # trace_limit
        BY <3>1, <3>2 DEF Trace, GoesOn, NextIteration
      <4>2. niter \in Nat /\ trace_limit \in Nat
        BY <4>1, ShellAssumption DEF TraceInv, TraceTypes
      <4>3. niter < trace_limit
        BY <4>1, <4>2 DEF TraceInv, TraceIsBounded
      <4>4. QED
        BY <4>1, <4>2, <4>3 DEF TraceInv, TraceTypes, TraceIsBounded
    <3>3. CASE ~GoesOn(more)
      BY <2>2, <3>1, <3>3 DEF Trace
    <3>4. QED
      BY <3>2, <3>3
  <2>9. ASSUME NEW file \in Files, EndOfFile(file)
        PROVE  TraceInv'
    BY <2>1, <2>3, <2>9 DEF EndOfFile
  <2>10. CASE UNCHANGED vars
    BY <2>1, <2>10 DEF vars
  <2>11. QED
    BY <2>5, <2>6, <2>7, <2>8, <2>9, <2>10 DEF Next
<1>3. QED
  BY <1>1, <1>2, PTL DEF Spec

\* However ! is traced, in whatever files and with whatever limits, no trace
\* goes past its limit.
THEOREM TracesStop == Spec => []TraceIsBounded
<1>1. TraceInv => TraceIsBounded
  BY DEF TraceInv
<1>2. QED
  BY <1>1, TraceInvariant, PTL

-----------------------------------------------------------------------------
(***************************************************************************)
(* The names.  The shell touches its tables of names in three actions, and *)
(* in each as Definitions does.                                            *)
(***************************************************************************)
\* What a throw or a file that opens or ends leaves as it is.
LEMMA FilesKeepNames ==
    /\ \A error : Throw(error) => UNCHANGED <<console, defns>>
    /\ \A file, shown : OpenFile(file, shown) => UNCHANGED <<debug, repl, status, defns>>
    /\ \A file, shown : ProcessFile(file, shown) => UNCHANGED <<debug, repl, defns>>
BY DEF Throw, OpenFile, ProcessFile, RefuseFile, FileNotFound, console

\* Every step of the shell is a step of Definitions or changes no name.
LEMMA NamesStep ==
    ASSUME [Next]_vars
    PROVE  [Defs!Next]_(Defs!defns)
<1>1. SUFFICES ASSUME Next
               PROVE  Defs!Next \/ UNCHANGED defns
  BY DEF vars, defns, Defs!defns
<1>2. CASE NextScript \/ ScriptsDone
  BY <1>2, FilesKeepNames DEF NextScript, ScriptsDone, RefuseFile, FileNotFound
<1>3. CASE Statement
  <2>1. ASSUME NEW e \in Defs!Results, Evaluate(e)
        PROVE  Defs!Next
    BY <2>1 DEF Evaluate, Defs!Next
  <2>2. ASSUME NEW n \in Names \cup {"it"}, NEW e \in Defs!Readable, Def(n, e)
        PROVE  Defs!Next
    BY <2>2 DEF Def, Defs!Next
  <2>3. CASE \/ EndlessProgram \/ StartTrace \/ EndOfInput \/ UnendedComment \/ BadTrace
             \/ Show \/ Exit \/ Again
             \/ \E error \in Errors : Failure(error)
             \/ \E n \in DOMAIN Constants : RefuseDef(n)
             \/ \E file \in Files, shown \in BOOLEAN : FileCommand(file, shown)
             \/ \E limit \in TraceLimits \cup {0} : SetTrace(limit)
    BY <2>3, FilesKeepNames
       DEF EndlessProgram, StartTrace, EndOfInput, UnendedComment, BadTrace, Show,
           Exit, Again, Failure, RefuseDef, FileCommand, SetTrace
  <2>4. QED
    BY <1>3, <2>1, <2>2, <2>3 DEF Statement
<1>4. CASE TraceStep
  <2>1. PICK e \in Defs!Results, more \in BOOLEAN : Trace(e, more)
    BY <1>4 DEF TraceStep
  <2>2. CASE GoesOn(more)
    BY <2>1, <2>2 DEF Trace
  <2>3. CASE ~ GoesOn(more)
    BY <2>1, <2>3 DEF Trace, Defs!Next
  <2>4. QED
    BY <2>2, <2>3
<1>5. ASSUME NEW file \in Files, EndOfFile(file)
      PROVE  UNCHANGED defns
  BY <1>5, FilesKeepNames DEF EndOfFile
<1>6. QED
  BY <1>1, <1>2, <1>3, <1>4, <1>5 DEF Next

\* The shell implements Definitions: whatever files are read, whatever fails
\* in them and however operators are traced, the names change only as :def
\* and the last value change them.
THEOREM NamesImplemented == Spec => Defs!Spec
<1>1. Init => Defs!Init
  BY DEF Init
<1>2. [Next]_vars => [Defs!Next]_(Defs!defns)
  BY NamesStep
<1>3. QED
  BY <1>1, <1>2, PTL DEF Spec, Defs!Spec

\* The names of the shell and those DefinitionsProofs speaks of are the same.
LEMMA SameNames ==
    /\ DefsTheory!ConstantsAreElements <=> Defs!ConstantsAreElements
    /\ DefsTheory!Init <=> Defs!Init
    /\ DefsTheory!Next <=> Defs!Next
    /\ DefsTheory!TypeOK <=> Defs!TypeOK
    /\ DefsTheory!TagsAreUnique <=> Defs!TagsAreUnique
    /\ DefsTheory!NamesAgree <=> Defs!NamesAgree
BY DEF Defs!ConstantsAreElements, DefsTheory!ConstantsAreElements,
       Defs!Init, DefsTheory!Init, Defs!Next, DefsTheory!Next,
       Defs!Def, DefsTheory!Def, Defs!SetIt, DefsTheory!SetIt,
       Defs!Defined, DefsTheory!Defined, Defs!MayDefine,
       DefsTheory!MayDefine, Defs!HasTag, DefsTheory!HasTag,
       Defs!TaggedByte, DefsTheory!TaggedByte, Defs!Readable,
       DefsTheory!Readable, Defs!Results, DefsTheory!Results,
       Defs!ConstantTag, DefsTheory!ConstantTag, Defs!Counted,
       DefsTheory!Counted, Defs!Tagged, DefsTheory!Tagged, Defs!Pair,
       DefsTheory!Pair, Defs!TypeOK, DefsTheory!TypeOK,
       Defs!TagsAreUnique, DefsTheory!TagsAreUnique, Defs!NamesAgree,
       DefsTheory!NamesAgree, Defs!Elements, DefsTheory!Elements,
       Defs!NewByte, DefsTheory!NewByte, Defs!IsByte,
       DefsTheory!IsByte, Defs!ByteValue, DefsTheory!ByteValue,
       Defs!ByteTag, DefsTheory!ByteTag, Defs!UNDEF, DefsTheory!UNDEF

\* So what is true of the names is true of the shell's: a byte is shown by the
\* name that was given to it and no other, and each name stands for what is
\* shown by it.
THEOREM ShellNamesAreTrue == Spec => [](Defs!TypeOK /\ Defs!TagsAreUnique /\ Defs!NamesAgree)
<1>1. DefsTheory!ConstantsAreElements
  BY NamesAssumption, SameNames
<1>2. Defs!Spec => DefsTheory!Spec
  BY SameNames, PTL DEF Defs!Spec, DefsTheory!Spec, Defs!defns, DefsTheory!defns
<1>3. DefsTheory!Spec => []DefsTheory!TypeOK
  BY <1>1, DefsTheory!TypeCorrect
<1>4. DefsTheory!Spec => []DefsTheory!TagsAreUnique
  BY <1>1, DefsTheory!NamedBytesAreDistinct
<1>5. DefsTheory!Spec => []DefsTheory!NamesAgree
  BY <1>1, DefsTheory!TablesAgree
<1>6. QED
  BY <1>2, <1>3, <1>4, <1>5, SameNames, NamesImplemented, PTL

-----------------------------------------------------------------------------
Statuses == {"scripts", "repl", "ended", "hangs", "MoreToRead", "Assertion"} \cup Errors

FlagTypes ==
    /\ debug \in BOOLEAN
    /\ repl \in BOOLEAN
    /\ status \in Statuses
    /\ processing \subseteq Files

\* A throw ends in one of the states, and registers nothing.
LEMMA ThrowFlags ==
    ASSUME FlagTypes, NEW error \in Errors \cup {"MoreToRead", "Assertion"}, Throw(error)
    PROVE  FlagTypes'
<1>1. status' \in Statuses
  BY DEF FlagTypes, Throw, Statuses
<1>2. processing' \subseteq processing
  BY DEF Throw, Unwound
<1>3. QED
  BY <1>1, <1>2 DEF FlagTypes, Throw, console

\* Every variable of the shell keeps its type: no step ends in a state the
\* console has no name for, or registers what is no file.
THEOREM TypeCorrect == Spec => []TypeOK
<1>1. Init => FlagTypes
  BY DEF Init, FlagTypes, Statuses
<1>2. CallTypes /\ FlagTypes /\ [Next]_vars => FlagTypes'
  <2> SUFFICES ASSUME CallTypes, FlagTypes, [Next]_vars
               PROVE  FlagTypes'
    OBVIOUS
  <2>1. ASSUME UNCHANGED console, status' = status, processing' = processing
        PROVE  FlagTypes'
    BY <2>1 DEF FlagTypes, console
  <2>2. "Runtime" \in Errors /\ "Command" \in Errors
    BY DEF Errors
  <2>3. ASSUME NEW file \in Files, NEW shown, OpenFile(file, shown)
        PROVE  FlagTypes'
    BY <2>3 DEF FlagTypes, OpenFile
  <2>4. ASSUME NEW file \in Files, NEW shown, ProcessFile(file, shown)
        PROVE  FlagTypes'
    BY <2>2, <2>3, <2>4, ThrowFlags DEF ProcessFile, RefuseFile, FileNotFound
  <2>5. CASE NextScript
    <3>1. Head(scripts).file \in Files
      <4>1. Head(scripts) \in Calls
        BY <2>5 DEF NextScript, CallTypes
      <4>2. QED
        BY <4>1 DEF Calls
    <3>2. QED
      BY <2>2, <2>3, <2>5, <3>1, ThrowFlags DEF NextScript, RefuseFile, FileNotFound
  <2>6. CASE ScriptsDone
    BY <2>6 DEF ScriptsDone, FlagTypes, Statuses, console
  <2>7. CASE Statement
    <3>1. ASSUME NEW e, Evaluate(e)
          PROVE  FlagTypes'
      BY <2>1, <3>1 DEF Evaluate
    <3>2. CASE StartTrace \/ Show
      BY <2>1, <3>2 DEF StartTrace, Show
    <3>3. CASE EndOfInput \/ BadTrace
      BY <2>2, <3>3, ThrowFlags DEF EndOfInput, BadTrace
    <3>4. ASSUME NEW error \in Errors, Failure(error)
          PROVE  FlagTypes'
      BY <3>4, ThrowFlags DEF Failure
    <3>5. CASE EndlessProgram \/ UnendedComment \/ Exit
      BY <3>5 DEF EndlessProgram, UnendedComment, Exit, FlagTypes, Statuses, console
    <3>6. ASSUME NEW n, NEW e, Def(n, e)
          PROVE  FlagTypes'
      BY <2>1, <3>6 DEF Def
    <3>7. ASSUME NEW n, RefuseDef(n)
          PROVE  FlagTypes'
      BY <2>2, <3>7, ThrowFlags DEF RefuseDef
    <3>8. ASSUME NEW file \in Files, NEW shown, FileCommand(file, shown)
          PROVE  FlagTypes'
      BY <2>4, <3>8 DEF FileCommand
    <3>9. ASSUME NEW limit, SetTrace(limit)
          PROVE  FlagTypes'
      BY <2>1, <3>9 DEF SetTrace
    <3>10. CASE Again
      <4>1. pending[1] \in Files
        BY <3>10 DEF Again, CallTypes
      <4>2. QED
        BY <2>4, <3>10, <4>1 DEF Again
    <3>11. QED
      BY <2>7, <3>1, <3>2, <3>3, <3>4, <3>5, <3>6, <3>7, <3>8, <3>9, <3>10 DEF Statement
  <2>8. CASE TraceStep
    BY <2>1, <2>8 DEF TraceStep, Trace
  <2>9. ASSUME NEW file \in Files, EndOfFile(file)
        PROVE  FlagTypes'
    <3>1. CASE Throw("Assertion")
      BY <3>1, ThrowFlags
    <3>2. CASE ~ Throw("Assertion")
      BY <2>9, <3>2 DEF EndOfFile, FlagTypes, console
    <3>3. QED
      BY <3>1, <3>2
  <2>10. CASE UNCHANGED vars
    BY <2>1, <2>10 DEF vars
  <2>11. QED
    BY <2>5, <2>6, <2>7, <2>8, <2>9, <2>10 DEF Next
<1>3. CallTypes /\ FlagTypes /\ TraceInv /\ Defs!TypeOK => TypeOK
  BY ShellAssumption
     DEF CallTypes, FlagTypes, TraceInv, TraceTypes, TypeOK, Statuses, Call
<1>4. QED
  BY <1>1, <1>2, <1>3, CallsInvariant, TraceInvariant, ShellNamesAreTrue, PTL DEF Spec
=============================================================================
