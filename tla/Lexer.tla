------------------------------- MODULE Lexer --------------------------------
(***************************************************************************)
(* How characters make the tokens of tree expressions (skip_spaces,        *)
(* next_token and scan_literal of src/tree/parser.cpp), with the positions *)
(* that tokens and errors carry (pos_t of src/grammar/parser-base.hpp) and *)
(* what verror makes of them.                                              *)
(*                                                                         *)
(* Pointers into the input are offsets, 1 for its first character; a range *)
(* [beg, end) is the characters before `end', so Limit is input_end.       *)
(* Characters are known by the class the code asks of them.  The parser    *)
(* asks for a token, refuses one, or is done: which, is in Parser.         *)
(*                                                                         *)
(* (A _slip definition is the next one with a mistake: see PoolAllocator.) *)
(***************************************************************************)
EXTENDS Integers, Sequences, FiniteSetsExt

CONSTANTS
  Blanks,     (* isspace, but for the newline                              *)
  Marks,      (* the characters that are tokens of their own               *)
  Uppers, Lowers, Digits, Quotes,
  Controls,   (* not printable, tabs among them: no literal holds one      *)
  NL, Hash, Backslash,
  ListWord,   (* the characters of the word `list'                         *)
  Texts,      (* what may be given to the parser                           *)
  DumpWidth   (* the longest lexeme that `dump' has room for               *)

Spaces    == Blanks \cup {NL}
Words     == Uppers \cup Lowers \cup Digits     \* isident; `_' is in Lowers
Names     == Lowers \cup Digits                 \* isname
Chars     == Spaces \cup Marks \cup Words \cup Quotes \cup Controls
             \cup {Hash, Backslash}
NonPlain  == Controls \cup {NL}                 \* not is_plain_char
End       == "end"                              \* no character: input_end

(* Each character is of one kind, but that a blank may be a control too.   *)
Kinds == <<Marks, Uppers, Lowers, Digits, Quotes, Blanks \cup Controls,
           {NL}, {Hash}, {Backslash}, {End}>>

ASSUME CharAssumption ==
  /\ \A i \in DOMAIN Kinds, j \in DOMAIN Kinds : i # j => Kinds[i] \cap Kinds[j] = {}
  /\ ListWord \in Seq(Lowers)
  /\ Texts \subseteq Seq(Chars)
  /\ DumpWidth \in Nat

VARIABLES
  input,    (* the characters between input_beg and input_end              *)
  nle,      (* input_nle: a newline after them was taken off               *)
  debug,    (* whether the debug build was asked to dump tokens            *)
  ptr,      (* input_ptr                                                   *)
  pos,      (* the position of ptr: [line, col]                            *)
  toks,     (* the tokens given, tok the last: [type, pos, beg, end]       *)
  scan,     (* scan_literal's ptr                                          *)
  error,    (* what `error' was called with: [pos, why]                    *)
  shown,    (* the line that verror shows and the place it marks           *)
  phase     (* the function that runs: "parser", "spaces", "token",        *)
            (* "literal", "dump" or "verror"; then how it ended: "done",   *)
            (* "thrown" or "aborted"                                       *)

vars == <<input, nle, debug, ptr, pos, toks, scan, error, shown, phase>>

Limit  == Len(input) + 1
CharAt(i) == IF i < Limit THEN input[i] ELSE End
Start  == [line |-> 1, col |-> 1]
NoLine == [beg |-> 0, end |-> 0, mark |-> 0]
NoError == [pos |-> Start, why |-> "none"]

-----------------------------------------------------------------------------
(* std::find_if over [from, input_end): the first character that is one of *)
(* S, or the end.                                                          *)
FindIf(from, S) == Min({i \in from .. Len(input) : input[i] \in S} \cup {Limit})

\* slip: the newline is counted with its own line only
Advance_slip(p, from, to) ==
  LET newlines == {i \in from .. to - 1 : input[i] = NL}
  IN  IF newlines = {}
        THEN [p EXCEPT !.col = @ + (to - from)]
        ELSE [line |-> p.line + Cardinality(newlines), col |-> to - Min(newlines)]

(* pos_t += range_t: where a position gets over [from, to).                *)
Advance(p, from, to) ==
  LET newlines == {i \in from .. to - 1 : input[i] = NL}
  IN  IF newlines = {}
        THEN [p EXCEPT !.col = @ + (to - from)]
        ELSE [line |-> p.line + Cardinality(newlines), col |-> to - Max(newlines)]

(* pos_t += size_t                                                         *)
Right(p, n) == [p EXCEPT !.col = @ + n]

Error(p, why) ==
  /\ error' = [pos |-> p, why |-> why]
  /\ phase' = "verror"

(* A token is the lexeme [beg, end); input_ptr and pos go behind it, `more'*)
(* characters further.                                                     *)
Give(type, beg, end, more) ==
  /\ toks' = Append(toks, [type |-> type, pos |-> pos, beg |-> beg, end |-> end])
  /\ ptr'  = end + more
  /\ phase' = IF debug THEN "dump" ELSE "parser"

-----------------------------------------------------------------------------
(* Parser::Parser: one newline at the end of the text belongs to its end.  *)
Init ==
  /\ \E text \in Texts :
       IF text # <<>> /\ text[Len(text)] = NL
         THEN input = SubSeq(text, 1, Len(text) - 1) /\ nle = TRUE
         ELSE input = text /\ nle = FALSE
  /\ debug \in BOOLEAN
  /\ ptr = 1 /\ pos = Start /\ toks = <<>> /\ scan = 0
  /\ error = NoError /\ shown = NoLine /\ phase = "parser"

AtEnd == toks # <<>> /\ toks[Len(toks)].type = "eos"

(* The parser needs a further token; it has not met the end of the input.  *)
AskToken ==
  /\ phase = "parser" /\ ~AtEnd
  /\ phase' = "spaces"
  /\ UNCHANGED <<input, nle, debug, ptr, pos, toks, scan, error, shown>>

(* need_token, missed_token and list_elem_idx: an error at tok or prev_tok.*)
RefuseToken ==
  /\ phase = "parser"
  /\ \E i \in {Len(toks) - 1, Len(toks)} \cap DOMAIN toks :
       Error(toks[i].pos, "token")
  /\ UNCHANGED <<input, nle, debug, ptr, pos, toks, scan, shown>>

EndParse ==
  /\ phase = "parser" /\ AtEnd
  /\ phase' = "done"
  /\ UNCHANGED <<input, nle, debug, ptr, pos, toks, scan, error, shown>>

\* slip: the newline is taken as part of the comment
SkipSpaces_slip ==
  /\ phase = "spaces"
  /\ LET past == FindIf(ptr, Chars \ Spaces)
         to == IF CharAt(past) = Hash
                 THEN Min({FindIf(past + 1, {NL}) + 1, Limit}) ELSE past
     IN  /\ ptr' = IF debug /\ to > ptr /\ to = Limit /\ nle THEN to + 1 ELSE to
         /\ pos' = Advance(pos, ptr, to)
  /\ phase' = "token"
  /\ UNCHANGED <<input, nle, debug, toks, scan, error, shown>>

(* skip_spaces: spaces, and then one comment up to its newline.  The debug *)
(* build steps over the newline that was taken off.                        *)
SkipSpaces ==
  /\ phase = "spaces"
  /\ LET past == FindIf(ptr, Chars \ Spaces)
         to == IF CharAt(past) = Hash THEN FindIf(past + 1, {NL}) ELSE past
     IN  /\ ptr' = IF debug /\ to > ptr /\ to = Limit /\ nle THEN to + 1 ELSE to
         /\ pos' = Advance(pos, ptr, to)
  /\ phase' = "token"
  /\ UNCHANGED <<input, nle, debug, toks, scan, error, shown>>

-----------------------------------------------------------------------------
(* next_token, by the character at input_ptr.                              *)
AtChar(S) == phase = "token" /\ CharAt(ptr) \in S

EndToken ==
  /\ phase = "token" /\ ptr >= Limit
  /\ Give("eos", ptr, ptr, 0)
  /\ UNCHANGED <<input, nle, debug, pos, scan, error, shown>>

CharToken ==
  /\ AtChar(Marks)
  /\ Give("mark", ptr, ptr + 1, 0)
  /\ pos' = Right(pos, 1)
  /\ UNCHANGED <<input, nle, debug, scan, error, shown>>

(* The word `list' is a keyword unless arg_ctxt: the parser's to say.      *)
WordTypes(word) ==
  IF \E i \in DOMAIN word : word[i] \notin Names THEN {"ident"}
  ELSE IF word = ListWord THEN {"name", "kw_list"} ELSE {"name"}

Word ==
  /\ AtChar(Uppers \cup Lowers)
  /\ LET end == FindIf(ptr + 1, Chars \ Words)
     IN  /\ \E type \in WordTypes(SubSeq(input, ptr, end - 1)) : Give(type, ptr, end, 0)
         /\ pos' = Right(pos, end - ptr)
  /\ UNCHANGED <<input, nle, debug, scan, error, shown>>

Number ==
  /\ AtChar(Digits)
  /\ LET end == FindIf(ptr + 1, Chars \ Digits)
     IN  Give("num", ptr, end, 0) /\ pos' = Right(pos, end - ptr)
  /\ UNCHANGED <<input, nle, debug, scan, error, shown>>

UnexpectChar ==
  /\ AtChar(Chars \ (Marks \cup Words \cup Quotes))
  /\ Error(pos, "char")
  /\ UNCHANGED <<input, nle, debug, ptr, pos, toks, scan, shown>>

OpenLiteral ==
  /\ AtChar(Quotes)
  /\ scan' = ptr + 1
  /\ phase' = "literal"
  /\ UNCHANGED <<input, nle, debug, ptr, pos, toks, error, shown>>

-----------------------------------------------------------------------------
(* scan_literal: where the next turn of its loop stops.                    *)
Stop == FindIf(scan, NonPlain \cup {Backslash, input[ptr]})
Escapes == CharAt(Stop) = Backslash
(* What a backslash cannot precede.                                        *)
Cut(i) == CharAt(i) \in {NL, End}

\* slip: only a newline ends the literal after a backslash
Escape_past_slip ==
  /\ phase = "literal" /\ Escapes /\ (Stop + 1 = Limit \/ ~Cut(Stop + 1))
  /\ scan' = Stop + 2
  /\ UNCHANGED <<input, nle, debug, ptr, pos, toks, error, shown, phase>>

\* slip: the backslash is not passed
Escape_stay_slip ==
  /\ phase = "literal" /\ Escapes /\ ~Cut(Stop + 1)
  /\ scan' = Stop
  /\ UNCHANGED <<input, nle, debug, ptr, pos, toks, error, shown, phase>>

(* A turn that goes on: a backslash and any character but a newline.       *)
Escape ==
  /\ phase = "literal" /\ Escapes /\ ~Cut(Stop + 1)
  /\ scan' = Stop + 2
  /\ UNCHANGED <<input, nle, debug, ptr, pos, toks, error, shown, phase>>

(* Where the loop ends.                                                    *)
LiteralEnd == IF Escapes THEN Stop + 1 ELSE Stop

CloseLiteral ==
  /\ phase = "literal" /\ ~Escapes
  /\ CharAt(LiteralEnd) = input[ptr]
  /\ Give("str", ptr + 1, LiteralEnd, 1)
  /\ pos' = Right(pos, (LiteralEnd - (ptr + 1)) + 2)
  /\ UNCHANGED <<input, nle, debug, scan, error, shown>>

\* slip: the place is counted from where the turn began
LiteralError_slip ==
  /\ phase = "literal"
  /\ ~Escapes \/ Cut(Stop + 1)
  /\ CharAt(LiteralEnd) \in NonPlain \cup {End}
  /\ Error(Right(pos, LiteralEnd - scan), "literal")
  /\ UNCHANGED <<input, nle, debug, ptr, pos, toks, scan, shown>>

(* The literal is cut by the end of the input or of the line, or has a     *)
(* character that is not plain: an error at that place.                    *)
LiteralError ==
  /\ phase = "literal"
  /\ ~Escapes \/ Cut(Stop + 1)
  /\ CharAt(LiteralEnd) \in NonPlain \cup {End}
  /\ Error(Right(pos, LiteralEnd - ptr), "literal")
  /\ UNCHANGED <<input, nle, debug, ptr, pos, toks, scan, shown>>

-----------------------------------------------------------------------------
(* Parser::dump asserts that the lexeme fits its column.  (It measures it  *)
(* up to a NUL, which is not told here from the other controls.)           *)
Dump ==
  /\ phase = "dump"
  /\ LET tok == toks[Len(toks)]
     IN  phase' = IF tok.end - tok.beg <= DumpWidth THEN "parser" ELSE "aborted"
  /\ UNCHANGED <<input, nle, debug, ptr, pos, toks, scan, error, shown>>

(* build_ln_ptrs: ln_ptrs[k], where the k-th line begins.                  *)
LineStarts == {1} \cup {i + 1 : i \in {j \in 1 .. Len(input) : input[j] = NL}}
LnPtr(k) ==
  CHOOSE s \in LineStarts : Cardinality({t \in LineStarts : t < s}) = k - 1

\* slip: the newline is part of its line
Line_slip(k) ==
  [beg |-> LnPtr(k), end |-> IF k < Cardinality(LineStarts) THEN LnPtr(k + 1) ELSE Limit]

(* verror, with the option --verbose: the line of the error, without its   *)
(* newline, and the place in it.                                           *)
Line(k) ==
  LET end == IF k < Cardinality(LineStarts) THEN LnPtr(k + 1) ELSE Limit
  IN  [beg |-> LnPtr(k),
       end |-> IF end > LnPtr(k) /\ input[end - 1] = NL THEN end - 1 ELSE end]

Verror ==
  /\ phase = "verror"
  /\ LET at == error.pos
         line == Line(at.line)
         mark == line.beg + (at.col - 1)
     IN  IF at.col > 0 /\ at.line \in 1 .. Cardinality(LineStarts) /\ mark <= line.end
           THEN /\ shown' = [beg |-> line.beg, end |-> line.end, mark |-> mark]
                /\ phase' = "thrown"
           ELSE phase' = "aborted" /\ UNCHANGED shown
  /\ UNCHANGED <<input, nle, debug, ptr, pos, toks, scan, error>>

Next ==
  \/ AskToken \/ RefuseToken \/ EndParse
  \/ SkipSpaces
  \/ EndToken \/ CharToken \/ Word \/ Number \/ UnexpectChar \/ OpenLiteral
  \/ Escape \/ CloseLiteral \/ LiteralError
  \/ Dump \/ Verror

(* One thread runs, and nothing makes it wait.                             *)
Spec == Init /\ [][Next]_vars /\ WF_vars(Next)

-----------------------------------------------------------------------------
Offsets   == 1 .. Limit
Positions == [line : Nat \ {0}, col : Nat \ {0}]
Types     == {"mark", "ident", "name", "kw_list", "str", "num", "eos"}

(* Type invariant.                                                         *)
TypeOK ==
  /\ input \in Seq(Chars) /\ nle \in BOOLEAN /\ debug \in BOOLEAN
  /\ ptr \in Nat \ {0} /\ scan \in Nat
  /\ pos \in Positions /\ error.pos \in Positions
  /\ toks \in Seq([type : Types, pos : Positions, beg : Nat, end : Nat])
  /\ phase \in {"parser", "spaces", "token", "literal", "dump", "verror",
                 "done", "thrown", "aborted"}

(* No pointer leaves the input, whatever it ends with, but for the debug   *)
(* build's step over the newline that was taken off its end; while it scans*)
(* a literal, scan_literal is ahead of the quote.                          *)
StaysInInput ==
  /\ ptr \in Offsets \/ (ptr = Limit + 1 /\ debug /\ nle)
  /\ scan \in 0 .. Limit
  /\ phase = "literal" => ptr < scan

(* Where the character at offset i is: its line, and its place in the line.*)
Place(i) ==
  LET newlines == {j \in 1 .. i - 1 : input[j] = NL}
  IN  [line |-> 1 + Cardinality(newlines), col |-> i - Max({0} \cup newlines)]

Clip(i) == IF i > Limit THEN Limit ELSE i
Literal(tok) == tok.type = "str"
First(tok) == IF Literal(tok) THEN tok.beg - 1 ELSE tok.beg
Behind(tok) == IF Literal(tok) THEN tok.end + 1 ELSE tok.end

(* Positions that are kept up piece by piece (spaces with newlines in them,*)
(* lexemes, quotes) never drift from the place they stand for.             *)
PositionsExact ==
  /\ pos = Place(Clip(ptr))
  /\ \A k \in DOMAIN toks : toks[k].pos = Place(Clip(First(toks[k])))

(* Every error, of the lexer or of the parser at a token, can be shown:    *)
(* verror's indices are in the input, its assertions hold, and it marks the*)
(* very place, in a line that no newline breaks.                           *)
ErrorsAreShown ==
  /\ phase = "aborted" => error = NoError
  /\ phase = "thrown" =>
       /\ 1 <= shown.beg /\ shown.beg <= shown.mark
       /\ shown.mark <= shown.end /\ shown.end <= Limit
       /\ \A i \in shown.beg .. shown.end - 1 : input[i] # NL
       /\ Place(shown.mark) = error.pos
=============================================================================
