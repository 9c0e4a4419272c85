------------------------------- MODULE Shell -------------------------------
(***************************************************************************)
(* The shell (elpa/shell.tpp) with KCon's manager (kcon/shell.tpp) under   *)
(* the console (elpa/console.tpp): the scripts of the command line, the    *)
(* files they process and include, the interactive loop, the names, `it'   *)
(* and the tracing of !.                                                   *)
(*                                                                         *)
(* A statement is one step, and which statement a file or the user gives   *)
(* next is a choice, so that every content of every file is explored.      *)
(* The names are those of Definitions.  What only printing looks at (:dec, *)
(* :flat, :line, :names and their opposites) is left out.                  *)
(***************************************************************************)
EXTENDS Integers, Sequences

CONSTANTS
    Files,         \* names of files
    Constants, Names, Values, MAX_TAG,   \* as in Definitions
    TraceLimits,   \* arguments of :trace
    MaxScripts     \* files on the command line

ASSUME ShellAssumption ==
    /\ TraceLimits \subseteq Nat \ {0}
    /\ MaxScripts \in Nat

VARIABLES
    debug,          \* System::AssertFlag
    repl,           \* -repl
    scripts,        \* the command line's files still to process, noisy or not
    status,         \* "scripts", "repl", "ended", "hangs", or what was thrown
    calls,          \* the process( filename ) calls being made, outermost first
    pending,        \* what the lines behind a "... " prompt begin with
    niter,          \* iteration of the operator loop, or Idle
    trace_limit,
    processing,
    defns_no_it,
    defns_with_it,
    byte_counts

console == <<debug, repl, scripts>>
defns == <<defns_no_it, defns_with_it, byte_counts>>
vars == <<console, status, calls, pending, niter, trace_limit, processing, defns>>

Defs == INSTANCE Definitions

ASSUME NamesAssumption == Defs!ConstantsAreElements

Idle == -1
NoInput == <<>>
Expression == <<"expression">>

Init ==
    /\ debug \in BOOLEAN
    /\ \E files \in UNION {[1 .. n -> Files] : n \in 0 .. MaxScripts}, shown \in BOOLEAN :
            scripts = [i \in DOMAIN files |-> [file |-> files[i], noisy |-> shown]]
    /\ repl \in BOOLEAN
    /\ scripts = <<>> => repl
    /\ status = "scripts"
    /\ calls = <<>>
    /\ pending = NoInput
    /\ niter = Idle
    /\ trace_limit = 0
    /\ processing = {}
    /\ Defs!Init

-----------------------------------------------------------------------------
(* The stack of calls *)

\* A statement can be read: the operator loop is not running.
AtStatement ==
    /\ niter = Idle
    /\ status = "repl" \/ (status = "scripts" /\ calls # <<>>)

Noisy == calls = <<>> \/ calls[Len(calls)].noisy

\* What a noisy statement prints goes to the stream of the innermost silent
\* call, which keeps it in a string, or to the console.
Printed ==
    LET silent == {i \in DOMAIN calls : ~calls[i].noisy}
    IN  IF Noisy /\ silent # {}
        THEN [calls EXCEPT ![CHOOSE i \in silent : \A j \in silent : j <= i].printed = TRUE]
        ELSE calls

\* Wrong on purpose: only the innermost of the calls erases its file.
UnwoundInnermost ==
    IF Noisy /\ calls # <<>> THEN processing \ {calls[Len(calls)].file} ELSE processing

\* An exception leaves every call.  Only the noisy form of process erases its
\* file on the way out (shell.tpp:353-361).
Unwound == processing \ {calls[i].file : i \in {j \in DOMAIN calls : calls[j].noisy}}

\* The interactive loop reports Syntax, IllegalOp, Command and Runtime errors,
\* asks for more on MoreToRead, and lets the rest through to the console, which
\* knows OutOfMemory only.
Errors == {"Syntax", "IllegalOp", "Command", "Runtime", "OutOfMemory"}

InputSoFar == IF calls = <<>> THEN Expression
              ELSE <<calls[1].file, calls[1].noisy>>

Throw(error) ==
    /\ processing' = Unwound
    /\ calls' = <<>>
    /\ niter' = Idle
    /\ pending' = IF status = "repl" /\ error = "MoreToRead" THEN InputSoFar ELSE NoInput
    /\ status' = IF status = "repl" /\ error \in Errors \cup {"MoreToRead"} THEN "repl"
                 ELSE IF error = "OutOfMemory" THEN "ended"
                 ELSE error
    /\ UNCHANGED <<console, defns>>

\* Wrong on purpose: a file that is being read is read again.
OpenFileAnyway(file, shown) ==
    /\ processing' = processing \cup {file}
    /\ calls' = Append(calls, [file |-> file, noisy |-> shown, printed |-> FALSE])
    /\ pending' = NoInput
    /\ UNCHANGED <<debug, repl, status, niter, trace_limit, defns>>

\* process( filename, eos ) and process( filename ), up to the first statement.
OpenFile(file, shown) ==
    /\ file \notin processing
    /\ processing' = processing \cup {file}
    /\ calls' = Append(calls, [file |-> file, noisy |-> shown, printed |-> FALSE])
    /\ pending' = NoInput
    /\ UNCHANGED <<debug, repl, status, niter, trace_limit, defns>>

RefuseFile(file) ==
    /\ file \in processing
    /\ Throw("Runtime")
    /\ UNCHANGED trace_limit

FileNotFound == Throw("Runtime") /\ UNCHANGED trace_limit

ProcessFile(file, shown) ==
    \/ OpenFile(file, shown) /\ UNCHANGED scripts
    \/ RefuseFile(file)
    \/ FileNotFound

\* The end of the file that is being read.
EndOfFile(file) ==
    /\ AtStatement
    /\ calls # <<>>
    /\ LET call == calls[Len(calls)] IN
       /\ call.file = file
       /\ IF debug /\ ~call.noisy /\ call.printed
          THEN Throw("Assertion")
          ELSE /\ processing' = processing \ {file}
               /\ calls' = SubSeq(calls, 1, Len(calls) - 1)
               /\ UNCHANGED <<console, status, niter, pending, defns>>
    /\ UNCHANGED trace_limit

-----------------------------------------------------------------------------
(* Statements *)

MayEvaluate == AtStatement /\ pending \in {NoInput, Expression}
MayCommand  == AtStatement /\ pending = NoInput

\* An expression, or an operator that is not traced and answers.
Evaluate(e) ==
    /\ MayEvaluate
    /\ calls' = Printed
    /\ Defs!SetIt(e)
    /\ pending' = NoInput
    /\ UNCHANGED <<console, status, niter, trace_limit, processing>>

\* A ! that is not traced, of a program that never exits: the loop of execute
\* looks at nothing else (kcon/interpreter.tpp:242-243).
EndlessProgram ==
    /\ MayEvaluate
    /\ trace_limit = 0
    /\ status' = "hangs"
    /\ UNCHANGED <<console, calls, pending, niter, trace_limit, processing, defns>>

\* ! with tracing on
StartTrace ==
    /\ MayEvaluate
    /\ trace_limit > 0
    /\ niter' = 0
    /\ pending' = NoInput
    /\ UNCHANGED <<console, status, calls, trace_limit, processing, defns>>

\* Wrong on purpose: the limit is not looked at.
GoesOnAnyway(more) == more

\* process_operator says whether there is more to do.
GoesOn(more) == more /\ niter # trace_limit

\* Wrong on purpose: the count wraps before it meets the limit.
WrappedIteration == (niter + 1) % trace_limit

NextIteration == niter + 1

Trace(e, more) ==
    /\ niter # Idle
    /\ calls' = Printed
    /\ IF GoesOn(more)
       THEN niter' = NextIteration /\ UNCHANGED defns
       ELSE niter' = Idle /\ Defs!SetIt(e)
    /\ UNCHANGED <<console, status, pending, trace_limit, processing>>

\* The input ends inside an expression.
EndOfInput == MayEvaluate /\ Throw("MoreToRead") /\ UNCHANGED trace_limit

\* Any other failure of a statement; no part of it is kept.
Failure(error) ==
    /\ MayEvaluate \/ niter # Idle
    /\ Throw(error)
    /\ UNCHANGED trace_limit

\* % with no line behind it
UnendedComment ==
    /\ AtStatement
    /\ calls # <<>>
    /\ status' = "hangs"
    /\ UNCHANGED <<console, calls, pending, niter, trace_limit, processing, defns>>

\* :def
Def(n, e) ==
    /\ MayCommand
    /\ Defs!Def(n, e)
    /\ UNCHANGED <<console, status, calls, pending, niter, trace_limit, processing>>

RefuseDef(n) ==
    /\ MayCommand
    /\ ~Defs!MayDefine(n)
    /\ Throw("Runtime")
    /\ UNCHANGED trace_limit

\* :process and :include
FileCommand(file, shown) == MayCommand /\ ProcessFile(file, shown)

\* :trace <num> and :trace off
SetTrace(limit) ==
    /\ MayCommand
    /\ trace_limit' = limit
    /\ UNCHANGED <<console, status, calls, pending, niter, processing, defns>>

\* :trace with something else has read 0 into the limit by the time it throws.
BadTrace ==
    /\ MayCommand
    /\ trace_limit' = 0
    /\ Throw("Command")

\* :defs, :sys and :help; and with nothing to print, :gc and the formats.
Show ==
    /\ MayCommand
    /\ calls' = Printed
    /\ UNCHANGED <<console, status, pending, niter, trace_limit, processing, defns>>

\* :quit and :exit; what reads a file takes no notice of them.
Exit ==
    /\ MayCommand
    /\ calls = <<>>
    /\ status' = "ended"
    /\ UNCHANGED <<console, calls, pending, niter, trace_limit, processing, defns>>

\* A line behind a "... " prompt is added to the input, which begins with the
\* command that processed a file, and the input is processed once more.
Again ==
    /\ AtStatement
    /\ pending \notin {NoInput, Expression}
    /\ ProcessFile(pending[1], pending[2])

Statement ==
    \/ \E e \in Defs!Results : Evaluate(e)
    \/ EndlessProgram
    \/ StartTrace
    \/ EndOfInput
    \/ \E error \in Errors : Failure(error)
    \/ UnendedComment
    \/ \E n \in Names \cup {"it"}, e \in Defs!Readable : Def(n, e)
    \/ \E n \in DOMAIN Constants : RefuseDef(n)
    \/ \E file \in Files, shown \in BOOLEAN : FileCommand(file, shown)
    \/ \E limit \in TraceLimits \cup {0} : SetTrace(limit)
    \/ BadTrace
    \/ Show
    \/ Exit
    \/ Again

TraceStep == \E e \in Defs!Results, more \in BOOLEAN : Trace(e, more)

-----------------------------------------------------------------------------
(* The console *)

NextScript ==
    /\ status = "scripts"
    /\ calls = <<>>
    /\ scripts # <<>>
    /\ \/ OpenFile(Head(scripts).file, Head(scripts).noisy) /\ scripts' = Tail(scripts)
       \/ RefuseFile(Head(scripts).file)
       \/ FileNotFound

\* The interactive loop, or the end.
ScriptsDone ==
    /\ status = "scripts"
    /\ calls = <<>>
    /\ scripts = <<>>
    /\ status' = IF repl THEN "repl" ELSE "ended"
    /\ UNCHANGED <<console, calls, pending, niter, trace_limit, processing, defns>>

Next ==
    \/ NextScript
    \/ ScriptsDone
    \/ Statement
    \/ TraceStep
    \/ \E file \in Files : EndOfFile(file)

Spec == Init /\ [][Next]_vars

\* One thread runs the shell, so a trace goes on, and a file has an end: what
\* reads it comes to that end if it is let read for ever.  A statement that does
\* not let it is one of the two that hang.
Fairness ==
    /\ WF_vars(TraceStep)
    /\ \A file \in Files : SF_vars(EndOfFile(file))

FairSpec == Spec /\ Fairness

-----------------------------------------------------------------------------
(* Properties *)

Calls == [file : Files, noisy : BOOLEAN]

\* Every variable keeps its type.
TypeOK ==
    /\ debug \in BOOLEAN
    /\ repl \in BOOLEAN
    /\ scripts \in Seq(Calls)
    /\ status \in {"scripts", "repl", "ended", "hangs", "MoreToRead", "Assertion"} \cup Errors
    /\ calls \in Seq([file : Files, noisy : BOOLEAN, printed : BOOLEAN])
    /\ pending \in {NoInput, Expression} \cup (Files \X BOOLEAN)
    /\ niter \in Nat \cup {Idle}
    /\ trace_limit \in TraceLimits \cup {0}
    /\ processing \subseteq Files
    /\ Defs!TypeOK

\* No file is being read twice at once, and each file being read is in
\* _processing, whatever failed before: the assertion of shell.tpp:363 and 378.
CallsAreRegistered ==
    \A i, j \in DOMAIN calls :
        calls[i].file \in processing /\ (calls[i].file = calls[j].file => i = j)

\* A traced ! stops at the first step after the limit at the latest
\* (kcon/shell.tpp:126-131), and tracing is not turned off under it.
TraceIsBounded == niter # Idle => niter <= trace_limit /\ trace_limit > 0

\* Whatever files process and include each other, reading comes to an end,
\* unless in a comment that has no line behind it (shell.tpp:198) or in a ! that
\* is not traced and whose program never exits (kcon/interpreter.tpp:242-243).
FilesEnd == (calls # <<>>) ~> (calls = <<>> \/ status = "hangs")

\* A file that ended inside an expression is read again with the next line that
\* is typed (shell.tpp:252 and 289): one that was processed can be, one that was
\* included is refused.
RetriedFiles ==
    pending \in Files \X BOOLEAN => (pending[2] <=> pending[1] \notin processing)

\* What is said of a file that is refused (shell.tpp:374): it is being read.
RefusedFilesAreOpen ==
    status = "repl" => \A file \in processing : \E i \in DOMAIN calls : calls[i].file = file

\* The assertion of shell.tpp:332: an included file prints nothing.
ProcessingPrintsNothing == status # "Assertion"
=============================================================================
