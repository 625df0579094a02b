----------------------------- MODULE Templates -----------------------------
(***************************************************************************)
(* The pages of the web interface: HTML::writeTemplate of html.cpp, which  *)
(* copies a file to the client and on the way interprets {$variable},      *)
(* {@if}, {@else}, {@loop} and {@end}, over a FileStream of stream.cpp.    *)
(*                                                                         *)
(* readTemplate, readIf, readLoop and readCmd call each other; the calls   *)
(* in progress are the stack of the templates being read, with what the    *)
(* one on top is reading now. A whole word counts as one character.        *)
(*                                                                         *)
(* feof is true only after a read that found nothing. Hence the loops read *)
(* once more at the end of the file, and readChar then returns a variable  *)
(* it never wrote: any character.                                          *)
(***************************************************************************)
EXTENDS Integers, Sequences, SequencesExt, FiniteSets

CONSTANT Pages    \* the files, as sequences of blocks and characters

(* The escapes, and the characters the code tells apart.                   *)
Block == [if   |-> <<"{", "@", "if", " ", "v", "}">>,
          ifnot |-> <<"{", "@", "if", " ", "!", "v", "}">>,
          else |-> <<"{", "@", "else", "}">>,
          loop |-> <<"{", "@", "loop", " ", "v", "}">>,
          end  |-> <<"{", "@", "end", "}">>,
          var  |-> <<"{", "$", "v", "}">>]
Characters == {"{", "}", "$", "@", "!", " ", "v", "if", "loop", "else", "end"}

VARIABLES
    page,      \* one of Pages
    pc,        \* "open", what is being read, or "done"
    pos,       \* the position of the file
    eof,       \* feof
    cmd, cond, \* cmd of readCmd, varCond of readIf
    templates, \* the calls of readTemplate: whether they write, and for whom
    out,       \* the positions of the characters written; 0: not in the file
    message    \* what the exception said

vars == <<page, pc, pos, eof, cmd, cond, templates, out, message>>

Expand(part) == IF part \in DOMAIN Block THEN Block[part] ELSE <<part>>
Text == FlattenSeq([k \in 1 .. Len(page) |-> Expand(page[k])])

(* writeVariable writes nothing, so that what getIntVariable and            *)
(* getBoolVariable convert is an empty string.                             *)
WriteVariable == <<>>
GetBoolVariable == WriteVariable # <<>>
GetIntVariable == Len(WriteVariable)

Call(on, for, other) == [on |-> on, for |-> for, other |-> other]
Writing == Last(templates).on

Init ==
    /\ page \in Pages
    /\ pc = "open" /\ pos = 1 /\ eof = FALSE
    /\ cmd = <<>> /\ cond = TRUE
    /\ templates = <<>> /\ out = <<>> /\ message = "none"

(* openReadOnly, which may throw.                                          *)
Open ==
    /\ pc = "open"
    /\ \/ /\ pc' = "template"
          /\ templates' = <<Call(TRUE, "page", FALSE)>>
          /\ UNCHANGED message
       \/ /\ pc' = "done"
          /\ message' = "Unable to open file"
          /\ UNCHANGED templates
    /\ UNCHANGED <<page, pos, eof, cmd, cond, out>>

(* readChar, of a character c that is in the file or is not.               *)
ReadChar(c) ==
    IF pos <= Len(Text)
      THEN c = Text[pos] /\ pos' = pos + 1 /\ UNCHANGED eof
      ELSE ~eof /\ eof' = TRUE /\ UNCHANGED pos

Here == IF pos <= Len(Text) THEN pos ELSE 0

(* A call of readTemplate returns: true for else, false for end and at the *)
(* end of the file. readLoop does not look at what it returns.             *)
Returned_Mut(else) == Front(templates)

Returned(else) ==
    LET top   == Last(templates)
        outer == Front(templates)
    IN  IF else /\ top.for = "if"
          THEN Append(outer, Call(top.other, "else", FALSE))
          ELSE outer

Return(else) ==
    /\ templates' = Returned(else)
    /\ pc' = IF templates' = <<>> THEN "done" ELSE "template"

(* The loop of readTemplate.                                               *)
ReadTemplate ==
    /\ pc = "template" /\ ~eof
    /\ \E c \in Characters :
          /\ ReadChar(c)
          /\ IF c = "{" THEN pc' = "escape" /\ UNCHANGED out
             ELSE /\ out' = IF Writing THEN Append(out, Here) ELSE out
                  /\ UNCHANGED pc
    /\ UNCHANGED <<page, cmd, cond, templates, message>>

(* What follows the brace. FileStream::read throws behind the end.         *)
Escape ==
    /\ pc = "escape"
    /\ \/ \E c \in Characters :
             /\ ReadChar(c)
             /\ pc' = CASE c = "$" -> "variable" [] c = "@" -> "cmd" [] OTHER -> "done"
             /\ message' = IF c \in {"$", "@"} THEN message
                           ELSE "Unknown template escape"
       \/ /\ eof
          /\ pc' = "done" /\ message' = "End of file"
          /\ UNCHANGED <<pos, eof>>
    /\ cmd' = <<>>
    /\ UNCHANGED <<page, cond, templates, out>>

ReadVariable ==
    /\ pc = "variable" /\ ~eof
    /\ \E c \in Characters :
          /\ ReadChar(c)
          /\ pc' = IF c = "}" THEN "template" ELSE pc
    /\ UNCHANGED <<page, cmd, cond, templates, out, message>>

(* readCmd, up to the call of readIf or readLoop or its return.            *)
ReadCmd ==
    /\ pc = "cmd" /\ ~eof
    /\ \E c \in Characters :
          /\ ReadChar(c)
          /\ IF c \notin {" ", "}"}
               THEN cmd' = Append(cmd, c) /\ UNCHANGED <<pc, templates>>
               ELSE /\ UNCHANGED cmd
                    /\ IF cmd \in {<<"end">>, <<"else">>}
                         THEN Return(cmd = <<"else">>)
                         ELSE /\ pc' = CASE cmd = <<"if">>   -> "if"
                                         [] cmd = <<"loop">> -> "loop"
                                         [] OTHER            -> "template"
                              /\ UNCHANGED templates
    /\ cond' = TRUE
    /\ UNCHANGED <<page, out, message>>

ReadIf ==
    /\ pc = "if" /\ ~eof
    /\ \E c \in Characters :
          /\ ReadChar(c)
          /\ cond' = IF c = "!" THEN ~cond ELSE cond
          /\ IF c = "}"
               THEN LET taken == GetBoolVariable = cond
                    IN  /\ pc' = "template"
                        /\ templates' = Append(templates,
                               Call(Writing /\ taken, "if", Writing /\ ~taken))
               ELSE UNCHANGED <<pc, templates>>
    /\ UNCHANGED <<page, cmd, out, message>>

(* A variable that is 0 skips the loop. Another one reads its body again   *)
(* and again from the same position: no variable is another one.           *)
ReadLoop ==
    /\ pc = "loop" /\ ~eof
    /\ \E c \in Characters :
          /\ ReadChar(c)
          /\ IF c = "}" /\ GetIntVariable = 0
               THEN /\ pc' = "template"
                    /\ templates' = Append(templates, Call(FALSE, "loop", FALSE))
               ELSE UNCHANGED <<pc, templates>>
    /\ UNCHANGED <<page, cmd, cond, out, message>>

(* Every loop ends at the end of the file, and with it its function.       *)
EndOfFile ==
    /\ pc \in {"template", "variable", "cmd", "if", "loop"} /\ eof
    /\ IF pc = "template" THEN Return(FALSE)
       ELSE pc' = "template" /\ UNCHANGED templates
    /\ UNCHANGED <<page, pos, eof, cmd, cond, out, message>>

Next ==
    \/ Open \/ ReadTemplate \/ Escape \/ ReadVariable
    \/ ReadCmd \/ ReadIf \/ ReadLoop \/ EndOfFile

Spec == Init /\ [][Next]_vars

-----------------------------------------------------------------------------
(* What a page should show, from the nesting of its blocks.                *)

Opens == {k \in 1 .. Len(page) : page[k] \in {"if", "ifnot", "loop"}}
Ends == {k \in 1 .. Len(page) : page[k] = "end"}
Elses == {k \in 1 .. Len(page) : page[k] = "else"}
Depth(j, k) == Cardinality({i \in Opens : j <= i /\ i <= k})
               - Cardinality({i \in Ends : j <= i /\ i <= k})

(* The blocks that position k lies in, and the innermost one.              *)
Around(k) == {j \in Opens : j < k /\ \A i \in j .. k - 1 : Depth(j, i) > 0}
Inner(k) == CHOOSE j \in Around(k) : \A i \in Around(k) : i <= j

InElse(j, k) == \E m \in Elses : j < m /\ m < k /\ Inner(m) = j

WellFormed ==
    /\ \A k \in 1 .. Len(page) : page[k] \in DOMAIN Block \cup {"v"}
    /\ \A k \in Ends \cup Elses : Around(k) # {}
    /\ \A k \in Elses : page[Inner(k)] # "loop" /\ ~InElse(Inner(k), k)

(* No variable is set: what stands in the part for an unset one.           *)
Shown(k) ==
    /\ page[k] = "v"
    /\ \A j \in Around(k) :
          CASE page[j] = "if"    -> InElse(j, k)
            [] page[j] = "ifnot" -> ~InElse(j, k)
            [] page[j] = "loop"  -> FALSE

Position(k) == 1 + Len(FlattenSeq([j \in 1 .. k - 1 |-> Expand(page[j])]))
Rendering ==
    LET shown == SetToSortSeq({k \in 1 .. Len(page) : Shown(k)}, <)
    IN  [n \in 1 .. Len(shown) |-> Position(shown[n])]

(* A page shows the text that stands outside every block and in the branch *)
(* for variables that are not set, however its blocks are nested, and then *)
(* at most the one character that is read behind its end or, if that is a  *)
(* brace, a message. Of a page with other escapes no character comes twice *)
(* or out of order (html.cpp:78-263, stream.cpp:98-116).                   *)
Rendered ==
    /\ pc = "done" /\ pos > 1 /\ WellFormed =>
         /\ out \in {Rendering, Append(Rendering, 0)}
         /\ message \in {"none", "End of file"}
    /\ \A k \in 1 .. Len(out) - 1 : out[k + 1] = 0 \/ out[k] < out[k + 1]
    /\ 0 \in {out[k] : k \in 1 .. Len(out)} => eof /\ Last(out) = 0
=============================================================================
