---------------------------- MODULE PatternMachine ----------------------------
(***************************************************************************)
(* The machine of Lua pattern matching (pm/pm.go): it runs a compiled      *)
(* pattern and backtracks over a stack of saved threads; Find runs it from *)
(* each start offset in turn, and string.find, match, gmatch and gsub      *)
(* (stringlib.go) read the captures.                                       *)
(*                                                                         *)
(* A behaviour is one call of Find: an input and its compiled form chosen  *)
(* in Init, then one step per instruction.  The machine gives up a run     *)
(* after MaxBacktracks backtracks and the caller sees "no match"; the      *)
(* history variable gaveUp records it.                                     *)
(*                                                                         *)
(* Left out: the cache of compiled patterns (a pure function of the        *)
(* pattern) and the pools that recycle machines, threads and capture       *)
(* arrays.                                                                 *)
(***************************************************************************)
EXTENDS PatternChars, SequencesExt

CONSTANTS
    Patterns,      \* the patterns searched for, sequences of characters
    Subjects,      \* the subjects searched in
    Limits,        \* the limits asked for; -1 is no limit
    Compiled,      \* for each pattern, its instructions or a refusal
    MaxBacktracks  \* backtracks a run may make

ASSUME SubjectAssumption == \A s \in Subjects : s \in Seq(STRING)
ASSUME BudgetAssumption == MaxBacktracks \in Nat

\* The capture slots instruction i of code writes.
Slots(code, i) ==
    CASE code[i].op = "save" -> {code[i].x}
      [] code[i].op = "psave" -> {code[i].x, code[i].x + 1}
      [] OTHER -> {}

Saves(code, i, slot) == code[i].op = "save" /\ code[i].x = slot

\* Instruction i may jump to offset t: it stays between the first and the last
\* instruction, and neither repeats nor skips one that writes a capture.
Jumps(code, i, t) ==
    /\ t \in 1 .. Len(code) - 2
    /\ \A j \in (i .. t) \cup (t + 1 .. i) : Slots(code, j) = {}

\* What the compiler owes the machine, which follows jumps and callers that slice
\* the subject at captures, both unchecked: the program saves its start first and
\* its end last, writes each slot in one place, and closes each capture, after it
\* was opened.
Sound(code) ==
    LET n == Len(code)
    IN /\ n \in Nat /\ n > 2
       /\ Saves(code, 1, 0) /\ Saves(code, n - 1, 1) /\ code[n].op \in {"match", "tailMatch"}
       /\ \A i, j \in 1 .. n : i # j => Slots(code, i) \cap Slots(code, j) = {}
       /\ \A i \in 1 .. n - 1 :
            \/ code[i].op \in {"char", "brace"}
            \/ code[i].op = "number" /\ code[i].x \in Nat \ {0}
            \/ code[i].op = "jmp" /\ Jumps(code, i, code[i].x)
            \/ code[i].op = "split" /\ Jumps(code, i, code[i].x) /\ Jumps(code, i, code[i].y)
            \/ \E c \in 0 .. n : Saves(code, i, 2 * c) /\ \E j \in i + 1 .. n : Saves(code, j, 2 * c + 1)
            \/ \E c \in 0 .. n : Saves(code, i, 2 * c + 1) /\ \E j \in 1 .. i - 1 : Saves(code, j, 2 * c)
            \/ \E c \in 1 .. n : code[i].op = "psave" /\ code[i].x = 2 * c

\* The patterns of a run are compiled soundly.
ASSUME CompilerAssumption ==
    \A p \in Patterns : Compiled[p].ok => Sound(Compiled[p].insts)

VARIABLES
    pattern, src, limit,      \* the call; the offset is find0
    find0,
    insts, mustHead,          \* the compiled pattern
    start,                    \* Find's sourcePos: where the current run began
    pc, sp, caps, stack, backtracks,   \* the machine (vm, MatchData)
    matches,                  \* the MatchData collected, each a capture array
    gaveUp,                   \* history: a run ended with threads left to try
    status                    \* running, done, or error

call == <<pattern, src, limit, find0>>
program == <<insts, mustHead>>
machine == <<pc, sp, caps, stack, backtracks>>
vars == <<call, program, machine, start, matches, gaveUp, status>>

(***************************************************************************)
(* The machine.                                                             *)
(***************************************************************************)
\* A class that may stand in a set.
matchItem(cls, ch) ==
    CASE cls.class = "literal" -> cls.char = ch
      [] cls.class = "single" -> InClass(cls.char, ch)
      [] cls.class = "dot" -> TRUE
      [] cls.class = "range" -> cls.begin <= Ord(ch) /\ Ord(ch) <= cls.end

matchClass(cls, ch) ==
    IF cls.class = "set"
    THEN (\E k \in 1 .. Len(cls.classes) : matchItem(cls.classes[k], ch)) # cls.negated
    ELSE matchItem(cls, ch)

\* A capture array is indexed from 0; ensureSlot fills it with zeros.
Slot(at, isPos) == [at |-> at, isPos |-> isPos]
Zero == Slot(0, FALSE)
ensureSlot(md, slot) ==
    [k \in 1 .. IF slot < Len(md) THEN Len(md) ELSE slot + 1 |-> IF k <= Len(md) THEN md[k] ELSE Zero]
setCapture(md, slot, at) == [ensureSlot(md, slot) EXCEPT ![slot + 1] = Slot(at, FALSE)]
addPosCapture(md, slot, at) ==
    [ensureSlot(md, slot + 1) EXCEPT ![slot + 1] = Slot(at, TRUE), ![slot + 2] = Slot(at, TRUE)]

Capture(md, idx) == IF idx < Len(md) THEN md[idx + 1].at ELSE 0
IsPosCapture(md, idx) == idx < Len(md) /\ md[idx + 1].isPos

NoMatch == -1

\* The nesting after the characters before each offset, of a run that opens at i.
Nesting(open, close, i) ==
    LET count[k \in i + 1 .. Len(src)] ==
            LET ch == At(src, k - 1)
            IN IF k = i + 1 THEN 1
               ELSE count[k - 1] + (IF ch = close THEN -1 ELSE IF ch = open THEN 1 ELSE 0)
    IN count

\* The offset after the shortest balanced run from i, or NoMatch.
matchBrace(open, close, i) ==
    LET ends == {k \in i + 1 .. Len(src) : Nesting(open, close, i)[k] = 0}
    IN IF At(src, i) = Eos \/ At(src, i) # open \/ ends = {} THEN NoMatch
       ELSE CHOOSE k \in ends : \A l \in ends : k <= l

\* A mutant of matchBackref: the capture may be open still.
MutantMatchBackrefOpen(index, i) ==
    LET from == Capture(caps, 2 * index)
        to == Capture(caps, 2 * index + 1)
    IN IF 2 * index + 1 >= Len(caps) \/ to > Len(src) THEN NoMatch
       ELSE IF i + to - from > Len(src) THEN NoMatch
       ELSE IF SubSeq(src, from + 1, to) # SubSeq(src, i + 1, i + to - from) THEN NoMatch
       ELSE i + to - from

\* A mutant of matchBackref: the capture may be longer than what is left.
MutantMatchBackref(index, i) ==
    LET from == Capture(caps, 2 * index)
        to == Capture(caps, 2 * index + 1)
    IN IF 2 * index + 1 >= Len(caps) \/ from > to \/ to > Len(src) THEN NoMatch
       ELSE IF i + to - from <= Len(src)
               /\ SubSeq(src, from + 1, to) # SubSeq(src, i + 1, i + to - from) THEN NoMatch
       ELSE i + to - from

matchBackref(index, i) ==
    LET from == Capture(caps, 2 * index)
        to == Capture(caps, 2 * index + 1)
    IN IF 2 * index + 1 >= Len(caps) \/ from > to \/ to > Len(src) THEN NoMatch
       ELSE IF i + to - from > Len(src) THEN NoMatch
       ELSE IF SubSeq(src, from + 1, to) # SubSeq(src, i + 1, i + to - from) THEN NoMatch
       ELSE i + to - from

\* A call of Find: getCompiledPattern, and the first round of the loop.
Init ==
    /\ pattern \in Patterns /\ src \in Subjects /\ limit \in Limits
    /\ find0 \in 0 .. Len(src)
    /\ insts = IF Compiled[pattern].ok THEN Compiled[pattern].insts ELSE <<>>
    /\ status = IF Compiled[pattern].ok THEN "running" ELSE "error"
    /\ mustHead = (At(pattern, 0) = "^")
    /\ start = find0
    /\ pc = 0 /\ sp = find0 /\ caps = <<>> /\ stack = <<>> /\ backtracks = 0
    /\ matches = <<>>
    /\ gaveUp = FALSE

\* A mutant of NextStart: a failed run does not move Find on.
MutantNextStartStays(ok, end) == IF ok /\ start < end THEN end ELSE start

\* A mutant of NextStart: Find looks for overlapping matches.
MutantNextStartOverlaps(ok, end) == start + 1

\* Where Find runs the machine next.
NextStart(ok, end) == IF ok /\ start + 1 < end THEN end ELSE start + 1

\* A mutant of RunEnds: the threads left on the stack are not released.
MutantRunEnds(ok, end) ==
    LET found == IF ok THEN Append(matches, caps) ELSE matches
        next == NextStart(ok, end)
        stop == (ok /\ Len(found) = limit) \/ mustHead \/ next > Len(src)
    IN /\ matches' = found
       /\ start' = next
       /\ status' = IF stop THEN "done" ELSE "running"
       /\ pc' = 0 /\ sp' = next /\ caps' = <<>> /\ stack' = stack /\ backtracks' = 0

\* The rest of Find's loop after a run, up to the start of the next one.
RunEnds(ok, end) ==
    LET found == IF ok THEN Append(matches, caps) ELSE matches
        next == NextStart(ok, end)
        stop == (ok /\ Len(found) = limit) \/ mustHead \/ next > Len(src)
    IN /\ matches' = found
       /\ start' = next
       /\ status' = IF stop THEN "done" ELSE "running"
       /\ pc' = 0 /\ sp' = next /\ caps' = <<>> /\ stack' = <<>> /\ backtracks' = 0

Jump(i) == pc' = i /\ UNCHANGED <<start, matches, status, gaveUp>>

\* vm.backtrack: resume the last thread, or end the run.
Backtrack ==
    LET t == Last(stack)
        spent == backtracks + 1 > MaxBacktracks
    IN IF spent \/ stack = <<>>
       THEN /\ RunEnds(FALSE, sp)
            /\ gaveUp' = (gaveUp \/ stack # <<>>)
       ELSE /\ Jump(t.pc)
            /\ sp' = t.sp
            /\ caps' = t.caps
            /\ stack' = Front(stack)
            /\ backtracks' = backtracks + 1

Running(op) == status = "running" /\ insts[pc + 1].op = op
inst == insts[pc + 1]

\* The instruction matched up to offset i, or backtracks.
Consume(i) ==
    IF i = NoMatch THEN Backtrack
    ELSE Jump(pc + 1) /\ sp' = i /\ UNCHANGED <<caps, stack, backtracks>>

opChar ==
    /\ Running("char")
    /\ Consume(IF sp < Len(src) /\ matchClass(inst.class, At(src, sp)) THEN sp + 1 ELSE NoMatch)
    /\ UNCHANGED <<call, program>>

opBrace ==
    /\ Running("brace")
    /\ Consume(matchBrace(inst.x, inst.y, sp))
    /\ UNCHANGED <<call, program>>

opNumber ==
    /\ Running("number")
    /\ Consume(matchBackref(inst.x, sp))
    /\ UNCHANGED <<call, program>>

opMatch ==
    /\ Running("match")
    /\ RunEnds(TRUE, sp)
    /\ UNCHANGED <<call, program, gaveUp>>

opTailMatch ==
    /\ Running("tailMatch")
    /\ IF sp >= Len(src) THEN RunEnds(TRUE, sp) /\ UNCHANGED gaveUp ELSE Backtrack
    /\ UNCHANGED <<call, program>>

opJmp ==
    /\ Running("jmp")
    /\ Jump(inst.x)
    /\ UNCHANGED <<call, program, sp, caps, stack, backtracks>>

opSplit ==
    /\ Running("split")
    /\ stack' = Append(stack, [pc |-> inst.y, sp |-> sp, caps |-> caps])
    /\ Jump(inst.x)
    /\ UNCHANGED <<call, program, sp, caps, backtracks>>

opSave ==
    /\ Running("save")
    /\ caps' = setCapture(caps, inst.x, sp)
    /\ Jump(pc + 1)
    /\ UNCHANGED <<call, program, sp, stack, backtracks>>

opPSave ==
    /\ Running("psave")
    /\ caps' = addPosCapture(caps, inst.x, sp + 1)
    /\ Jump(pc + 1)
    /\ UNCHANGED <<call, program, sp, stack, backtracks>>

Next ==
    \/ opChar \/ opMatch \/ opTailMatch \/ opJmp \/ opSplit
    \/ opSave \/ opPSave \/ opBrace \/ opNumber

Spec == Init /\ [][Next]_vars /\ WF_vars(Next)

(***************************************************************************)
(* What the callers read (stringlib.go).                                    *)
(***************************************************************************)
\* The slice of the subject between two offsets.
Slice(from, to) == SubSeq(src, from + 1, to)

\* The values of a match's captures, or the whole match when it has none.
Values(md) ==
    IF Len(md) = 2 THEN <<[string |-> Slice(Capture(md, 0), Capture(md, 1))]>>
    ELSE [k \in 1 .. Len(md) \div 2 - 1 |->
            IF IsPosCapture(md, 2 * k) THEN [position |-> Capture(md, 2 * k)]
            ELSE [string |-> Slice(Capture(md, 2 * k), Capture(md, 2 * k + 1))]]

\* gsub's result: info lists what each match is replaced by.
strGsubDoReplace(info) ==
    LET offset(n) == IF n = 0 THEN 0 ELSE info[n].to
        buf[n \in 0 .. Len(info)] ==
            IF n = 0 THEN <<>>
            ELSE buf[n - 1] \o Slice(offset(n - 1), info[n].from) \o info[n].string
    IN buf[Len(info)] \o Slice(offset(Len(info)), Len(src))

(***************************************************************************)
(* Properties.                                                              *)
(***************************************************************************)
Offsets == 0 .. Len(src)
CaptureArrays == Seq([at : 0 .. Len(src) + 1, isPos : BOOLEAN])

\* The machine stays inside its program, its subject and its budget: a saved
\* thread points at an instruction and an offset that exist (vm.run indexes
\* insts and src with them unchecked).
TypeOK ==
    /\ status \in {"running", "done", "error"}
    /\ status = "running" =>
         /\ pc \in 0 .. Len(insts) - 1
         /\ sp \in Offsets
         /\ caps \in CaptureArrays
         /\ backtracks \in 0 .. MaxBacktracks
         /\ \A k \in 1 .. Len(stack) :
              /\ stack[k].pc \in 0 .. Len(insts) - 1
              /\ stack[k].sp \in Offsets
              /\ stack[k].caps \in CaptureArrays
    /\ Len(matches) <= Len(src) + 1

\* Every capture of a match is a slice of the subject: it ends inside and no
\* earlier than it begins.  strMatch and capturedString slice at these offsets
\* unchecked, also when a reference read the capture while it was open.
CapturesSlice ==
    \A k \in 1 .. Len(matches) :
        LET md == matches[k]
        IN \A i \in 0 .. Len(md) :
             IsPosCapture(md, 2 * i) \/ (Capture(md, 2 * i) <= Capture(md, 2 * i + 1)
                                         /\ Capture(md, 2 * i + 1) <= Len(src))

\* gsub can splice whatever Find answers: replacing every match by itself gives
\* the subject back, so matches do not overlap and come in order (strGsubDoReplace
\* slices the subject between them, and a bad slice panics).
IdentityReplace ==
    status = "done" =>
        LET info == [k \in 1 .. Len(matches) |->
                       [from |-> Capture(matches[k], 0), to |-> Capture(matches[k], 1),
                        string |-> Slice(Capture(matches[k], 0), Capture(matches[k], 1))]]
        IN strGsubDoReplace(info) = src

\* Every search ends: each run consumes its input or its budget, and Find always
\* moves on, also from an empty match.
SearchEnds == <>(status \in {"done", "error"})
=============================================================================
