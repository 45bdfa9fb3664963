----------------------------- MODULE Preprocessing ------------------------------
(***************************************************************************)
(* The whole preprocessor: the lines of Preprocessor, with the macros and   *)
(* expressions of Macros.  A text line's arg is its tokens; an #if line's   *)
(* arg is the tokens of its expression and its val is the expression that   *)
(* they are in C; a #define's val is the macro; an #include's arg is the    *)
(* tokens of its operand, without comments and, within <>, white space.     *)
(***************************************************************************)
EXTENDS Preprocessor, Macros

\* The operators that Preprocessor leaves open.
EvaluatedHolds(toks, macros) == EvalIf(toks, macros).v # 0
EvaluatedMalformed(toks, macros) == ~EvalIf(toks, macros).ok
MacroExpanded(toks, macros) == Expansion(toks, macros).toks

\* Macros are expanded between < and >, too.
HeaderRead(toks, macros) ==
  LET header(ts) ==
        CASE Len(ts) = 1 /\ ts[1] \in DOMAIN Quoted -> [form |-> "quoted", name |-> Quoted[ts[1]]]
          [] Len(ts) = 3 /\ ts[1] = "<" /\ ts[3] = ">" -> [form |-> "angle", name |-> ts[2]]
          [] OTHER -> [form |-> "neither", name |-> ""]
  IN  Of(Expansion(toks, macros).toks, header)

-----------------------------------------------------------------------------
\* A text line that is passed on has the tokens that C says, in their order:
\* recursion stops where C stops it, arguments are expanded once before they are
\* bound, and not if they are pasted.  The notes say what is known to differ.
ExpandedRight ==
  [][Len(out') > Len(out) /\ Expansion(Line.arg, defines).notes = {}
       => out'[Len(out')].text = StandardExpansion(Line.arg, defines)]_vars

\* An #if or #elif that is evaluated takes its branch iff the value of its
\* expression, grouped as in C, is not zero, if C gives it a value and Python's
\* operators agree with C's; and such an expression is never refused.
Evaluated == Reading /\ (Line.is = "if" \/ (Line.is = "elif" /\ Active.conds # <<>> /\ ~Last(Active.conds).ever))
ConditionsRight ==
  [][Evaluated /\ Value(Line.val, defines).ok /\ Value(Line.val, defines).same
       => /\ ~error'
          /\ Last(Last(stack'[Len(stack')].groups)) = (Value(Line.val, defines).v # 0)]_vars
=============================================================================
