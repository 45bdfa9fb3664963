------------------------------ MODULE Preprocessor ------------------------------
(***************************************************************************)
(* compiler/preprocessor.py: the lines of a file and of the files it        *)
(* includes, one at a time.  A frame is an active call of _process, with    *)
(* its own stack of conditionals; the macros belong to all of them.         *)
(*                                                                          *)
(* What an expression or a macro is, is left open here (see Macros).  The   *)
(* text that comes out is followed by the lexer, which counts lines and     *)
(* obeys line markers.                                                      *)
(***************************************************************************)
EXTENDS Integers, Sequences, FiniteSets, Functions

CONSTANTS
  Worlds,          \* file systems
  Loaded(_),       \* what is in a file system: a function from files to their lines
  Top,             \* the file that is compiled
  IncludeDirs,     \* -I directories
  Initial,         \* macros defined at the start, by name
  Holds(_, _),     \* the value of an expression under the macros
  Malformed(_, _), \* the expression cannot be evaluated
  Expanded(_, _),  \* the text after macro expansion
  Header(_, _)     \* what an #include names after macro expansion: [form, name]

\* A file is <<directory, name>>; a line is [is, arg, val].  is is text, the name
\* of a directive, or wrong: a directive that is unknown or misses its operands.
\* #line and # line differ; their arg is the place they give, <<>> without a file.
ASSUME WorldsAssumption ==
  \A w \in Worlds : LET fs == Loaded(w)
                    IN  Top \in DOMAIN fs /\ \A f \in DOMAIN fs : fs[f] \in Seq(Range(fs[f]))

VARIABLES
  files,    \* the file system
  stack,    \* the frames, the last one active
  defines,  \* the macros
  error,    \* an exception has been raised
  pos,      \* the lexer: file and number of the line that comes next
  out       \* the text lines that were passed on; history: with their origin and pos

vars == <<files, stack, defines, error, pos, out>>

-----------------------------------------------------------------------------
(* Conditionals: conds is the stack of pairs (taking, ever_taken).  groups is a
   history of the same shape: for each open group, the values of the conditions
   of its branches so far, that of else being true. *)

Taking(conds) == \A j \in DOMAIN conds : conds[j].taking
Parents(conds) == SubSeq(conds, 1, Len(conds) - 1)

\* #if, #ifdef, #ifndef
Opened(f, b) ==
  [f EXCEPT !.conds = Append(@, [taking |-> b /\ Taking(@), ever |-> b]),
            !.groups = Append(@, <<b>>)]

\* mutant: a group that has been taken can be taken again
ElsedIfAgain(f, b) ==
  LET n == Len(f.conds)
      new == b /\ Taking(Parents(f.conds))
  IN  [f EXCEPT !.conds[n] = [taking |-> new, ever |-> new], !.groups[n] = Append(@, b)]

\* #elif
ElsedIf(f, b) ==
  LET n == Len(f.conds)
      new == b /\ Taking(Parents(f.conds))
  IN  [f EXCEPT !.conds[n] = IF @.ever THEN [taking |-> FALSE, ever |-> TRUE]
                             ELSE [taking |-> new, ever |-> new],
                !.groups[n] = Append(@, b)]

\* #else
Elsed(f) ==
  LET n == Len(f.conds)
      new == ~f.conds[n].ever /\ Taking(Parents(f.conds))
  IN  [f EXCEPT !.conds[n] = [taking |-> new, ever |-> @.ever \/ new],
                !.groups[n] = Append(@, TRUE)]

\* #endif
Closed(f) == [f EXCEPT !.conds = Parents(@), !.groups = Parents(@)]

-----------------------------------------------------------------------------
Frame(file, guard) == [file |-> file, at |-> 0, conds |-> <<>>, guard |-> guard, groups |-> <<>>]

Init ==
  /\ \E w \in Worlds : files = Loaded(w)
  /\ stack = <<Frame(Top, {})>>
  /\ defines = Initial
  /\ error = FALSE
  /\ pos = <<Top, 1>>
  /\ out = <<>>

Active == stack[Len(stack)]
Running == stack # <<>> /\ ~error
Reading == Running /\ Active.at < Len(files[Active.file])
Line == files[Active.file][Active.at + 1]
Selected == Taking(Active.conds)

\* The active frame after the line, changed to f.
Advance(f) == stack' = [stack EXCEPT ![Len(stack)] = [f EXCEPT !.at = @ + 1]]

\* Every line of the source but an included one becomes a line.
NextLine == pos' = <<pos[1], pos[2] + 1>>

Raise == /\ error' = TRUE
         /\ UNCHANGED <<files, stack, defines, pos, out>>

Text ==
  /\ Reading /\ Line.is = "text"
  /\ out' = IF Selected
            THEN Append(out, [file |-> Active.file, line |-> Active.at + 1, pos |-> pos,
                              text |-> Expanded(Line.arg, defines)])
            ELSE out
  /\ Advance(Active) /\ NextLine
  /\ UNCHANGED <<files, defines, error>>

\* A line marker is passed on wherever it is, unless there is white space in it.
\* The lexer drops one that gives a number only.
Marker ==
  /\ Reading /\ (Line.is = "line" \/ (Line.is = "# line" /\ Selected))
  /\ IF Line.arg = <<>> THEN NextLine ELSE pos' = Line.arg
  /\ Advance(Active)
  /\ UNCHANGED <<files, defines, error, out>>

\* Conditionals are evaluated in skipped groups, too.
Condition ==
  \/ Line.is = "ifdef" /\ Line.arg \in DOMAIN defines
  \/ Line.is = "ifndef" /\ Line.arg \notin DOMAIN defines
  \/ Line.is \in {"if", "elif"} /\ Holds(Line.arg, defines)

\* No expression is an error of #if, whatever it means for #elif.
Unreadable ==
  \/ Line.is = "if" /\ Line.arg = <<>>
  \/ Line.is \in {"if", "elif"} /\ Malformed(Line.arg, defines)

If ==
  /\ Reading /\ Line.is \in {"if", "ifdef", "ifndef"}
  /\ IF Unreadable THEN Raise
     ELSE /\ Advance(Opened(Active, Condition)) /\ NextLine
          /\ UNCHANGED <<files, defines, error, out>>

\* The expression is not looked at if a branch has been taken.
Elif ==
  /\ Reading /\ Line.is = "elif"
  /\ IF Active.conds = <<>> THEN Raise
     ELSE IF ~Active.conds[Len(Active.conds)].ever /\ Unreadable THEN Raise
     ELSE /\ Advance(ElsedIf(Active, ~Unreadable /\ Condition)) /\ NextLine
          /\ UNCHANGED <<files, defines, error, out>>

Else ==
  /\ Reading /\ Line.is = "else"
  /\ IF Active.conds = <<>> THEN Raise
     ELSE /\ Advance(Elsed(Active)) /\ NextLine
          /\ UNCHANGED <<files, defines, error, out>>

Endif ==
  /\ Reading /\ Line.is = "endif"
  /\ IF Active.conds = <<>> THEN Raise
     ELSE /\ Advance(Closed(Active)) /\ NextLine
          /\ UNCHANGED <<files, defines, error, out>>

-----------------------------------------------------------------------------
(* Other directives, which do nothing in a skipped group. *)
Others == {"define", "undef", "include", "warning", "pragma", "wrong", "# line"}

Skip ==
  /\ Reading /\ Line.is \in Others /\ ~Selected
  /\ Advance(Active) /\ NextLine
  /\ UNCHANGED <<files, defines, error, out>>

\* mutant: macros are defined in skipped groups, too
DefineAnyway ==
  /\ Reading /\ Line.is = "define"
  /\ defines' = [x \in DOMAIN defines \cup {Line.arg} |-> IF x = Line.arg THEN Line.val ELSE defines[x]]
  /\ Advance(Active) /\ NextLine
  /\ UNCHANGED <<files, error, out>>

Define ==
  /\ Reading /\ Line.is = "define" /\ Selected
  /\ defines' = [x \in DOMAIN defines \cup {Line.arg} |-> IF x = Line.arg THEN Line.val ELSE defines[x]]
  /\ Advance(Active) /\ NextLine
  /\ UNCHANGED <<files, error, out>>

Undef ==
  /\ Reading /\ Line.is = "undef" /\ Selected
  /\ defines' = [x \in DOMAIN defines \ {Line.arg} |-> defines[x]]
  /\ Advance(Active) /\ NextLine
  /\ UNCHANGED <<files, error, out>>

Ignore ==
  /\ Reading /\ Line.is \in {"warning", "pragma"} /\ Selected
  /\ Advance(Active) /\ NextLine
  /\ UNCHANGED <<files, defines, error, out>>

Wrong ==
  /\ Reading /\ Line.is = "wrong" /\ Selected
  /\ Raise

\* The directories that a file is looked for in: "name" first where the including
\* file is; none if the operand is neither "name" nor <name>.
Included == Header(Line.arg, defines)
SearchDirs == CASE Included.form = "quoted" -> <<Active.file[1]>> \o IncludeDirs
                [] Included.form = "angle" -> IF IncludeDirs = <<>> THEN <<Active.file[1]>> ELSE IncludeDirs
                [] OTHER -> <<>>
Candidate(k) == <<SearchDirs[k], Included.name>>

\* mutant: a directory will do that does not have the file
FoundAnywhere == DOMAIN SearchDirs

Found == {k \in DOMAIN SearchDirs : Candidate(k) \in DOMAIN files}

\* mutant: the line of an include is read again after it
OnceReadAgain == stack

\* The stack when the line has been read.
OnceRead == [stack EXCEPT ![Len(stack)].at = @ + 1]

\* mutant: a file does not count as being included while it is read
EnteredUnguarded(file) == Frame(file, Active.guard)

\* The frame of an included file: it and those it is included from are not
\* included again before it ends.
Entered(file) == Frame(file, Active.guard \cup {file})

\* A file that is being included already is left out.
Enter(file) ==
  /\ IF file \in Active.guard
     THEN Advance(Active) /\ NextLine
     ELSE stack' = Append(OnceRead, Entered(file)) /\ pos' = <<file, 1>>
  /\ UNCHANGED <<files, defines, error, out>>

Include ==
  /\ Reading /\ Line.is = "include" /\ Selected
  /\ \/ Found = {} /\ Raise
     \/ \E k \in Found : (\A j \in Found : k <= j) /\ Enter(Candidate(k))

\* mutant: the lines after an include are numbered from the include on
ResumedAt(f) == <<f.file, f.at>>

\* The line marker after an included file.
Resumed(f) == <<f.file, f.at + 1>>

EndOfFile ==
  /\ Running /\ Active.at = Len(files[Active.file])
  /\ IF Active.conds # <<>> THEN Raise
     ELSE /\ stack' = SubSeq(stack, 1, Len(stack) - 1)
          /\ pos' = IF Len(stack) > 1 THEN Resumed(stack[Len(stack) - 1]) ELSE pos
          /\ UNCHANGED <<files, defines, error, out>>

\* So that deadlock is an error.
Terminating == ~Running /\ UNCHANGED vars

Next ==
  \/ Text \/ Marker \/ If \/ Elif \/ Else \/ Endif \/ Skip
  \/ Define \/ Undef \/ Ignore \/ Wrong \/ Include \/ EndOfFile
  \/ Terminating

Spec == Init /\ [][Next]_vars

\* _process is a loop over the lines, and returns: weak fairness of its end, and of
\* reading a line, which is possible whenever there is one (Reading, instead of an
\* ENABLED that TLC would expand every macro for).
FairSpec == /\ Spec
            /\ WF_vars(EndOfFile)
            /\ []<>~Reading \/ []<><<Next>>_vars

-----------------------------------------------------------------------------
\* A type for every variable; the lines read are lines of the file.
FrameType(f) ==
  /\ f.file \in DOMAIN files
  /\ f.at \in 0 .. Len(files[f.file])
  /\ f.conds \in Seq([taking : BOOLEAN, ever : BOOLEAN])
  /\ f.groups \in Seq(Seq(BOOLEAN))
  /\ f.guard \subseteq DOMAIN files

TypeOK ==
  /\ Top \in DOMAIN files
  /\ \A k \in DOMAIN stack : FrameType(stack[k])
  /\ error \in BOOLEAN

\* A branch is the first one of its group whose condition is true.
FirstTrue(branches) ==
  /\ branches[Len(branches)]
  /\ \A i \in 1 .. Len(branches) - 1 : ~branches[i]

\* The two flags per group select the lines that C does: those in the first
\* true branch of every group they are in.
TakenRight ==
  \A k \in DOMAIN stack :
    Taking(stack[k].conds) <=> \A j \in DOMAIN stack[k].groups : FirstTrue(stack[k].groups[j])

\* Only selected lines define or remove macros or include files.
SelectedOnly ==
  [][defines' # defines \/ Len(stack') > Len(stack) =>
       \A j \in DOMAIN Active.groups : FirstTrue(Active.groups[j])]_vars

\* The lexer knows the file and the number of every line, after included files
\* and skipped groups, if the source has no line markers of its own.
Unmarked == \A f \in DOMAIN files : \A n \in DOMAIN files[f] : files[f][n].is \notin {"line", "# line"}
LinesMapped == Unmarked => \A i \in DOMAIN out : out[i].pos = <<out[i].file, out[i].line>>

\* A file is included within itself once at most, and only the first one.
NoFileWithinItself ==
  \A i, j \in DOMAIN stack : i > 1 /\ i < j => stack[i].file # stack[j].file

\* Whatever includes what, the preprocessor ends.
Terminates == <>~Running
=============================================================================
