---------------------------- MODULE LexerTokens -----------------------------
(***************************************************************************)
(* What the lexer should make of a text, said of whole stretches of it and *)
(* without a scan: which stretches are tokens, and what may stand between  *)
(* them.                                                                   *)
(***************************************************************************)
EXTENDS Lexer

AllIn(S, from, to) == \A i \in from .. to : input[i] \in S

(* The text ends at i, or goes on there with none of S.                    *)
EndsBefore(i, S) == i = Limit \/ input[i] \notin S

(* Inside of a literal that is opened at b, a character is escaped by an   *)
(* odd number of backslashes before it.                                    *)
Escaped(b, i) ==
  LET clear == Max({j \in b .. i - 1 : input[j] # Backslash})
  IN  (i - 1 - clear) % 2 = 1

Belongs(b, i) ==
  IF Escaped(b, i) THEN input[i] # NL ELSE input[i] \notin NonPlain \cup {input[b]}

IsLiteral(b, e) ==
  /\ b < e /\ input[b] \in Quotes /\ input[e] = input[b] /\ ~Escaped(b, e)
  /\ \A i \in b + 1 .. e - 1 : Belongs(b, i)

IsWord(b, e) ==
  /\ b < e /\ input[b] \notin Digits
  /\ AllIn(Words, b, e - 1) /\ EndsBefore(e, Words)

IsRight(tok) ==
  LET b == tok.beg
      e == tok.end
  IN  CASE tok.type = "mark"    -> e = b + 1 /\ input[b] \in Marks
        [] tok.type = "ident"   -> IsWord(b, e) /\ ~AllIn(Names, b, e - 1)
        [] tok.type = "name"    -> IsWord(b, e) /\ AllIn(Names, b, e - 1)
        [] tok.type = "kw_list" -> IsWord(b, e) /\ SubSeq(input, b, e - 1) = ListWord
        [] tok.type = "num"     -> /\ b < e /\ AllIn(Digits, b, e - 1)
                                   /\ EndsBefore(e, Digits)
        [] tok.type = "str"     -> IsLiteral(b - 1, e)
        [] tok.type = "eos"     -> b = e /\ b >= Limit

(* Between tokens there are spaces, and after the last there may be a      *)
(* comment, on the last line of the text and nowhere else.                 *)
IsGap(from, to) ==
  \E c \in from .. to :
    /\ AllIn(Spaces, from, c - 1)
    /\ c < to => input[c] = Hash /\ AllIn(Chars \ {NL}, c, to - 1)

Gaps(k) == IF k = 1 THEN 1 ELSE Behind(toks[k - 1])

(* The tokens given are the text, all of it and in its order: each is as   *)
(* long as it can be, and nothing is dropped but spaces and a comment that *)
(* ends the text.                                                          *)
ReadsText ==
  \A k \in DOMAIN toks :
    /\ IsRight(toks[k])
    /\ LET to == Clip(First(toks[k]))
       IN  IF toks[k].type = "eos" THEN IsGap(Gaps(k), to)
                                   ELSE AllIn(Spaces, Gaps(k), to - 1)

(* A text is only refused where no token can be: at a character that begins*)
(* none, the newline that ends a comment among them, or at the first place *)
(* where a literal cannot go on.                                           *)
RefusesRightly ==
  /\ error.why = "char" =>
       /\ error.pos = Place(ptr)
       /\ IsGap(Gaps(Len(toks) + 1), ptr)
       /\ input[ptr] \notin Marks \cup Words \cup Quotes \cup Blanks \cup {Hash}
       /\ input[ptr] = NL => ~AllIn(Spaces, Gaps(Len(toks) + 1), ptr)
  /\ error.why = "literal" =>
       \E q \in ptr + 1 .. Limit :
         /\ error.pos = Place(q)
         /\ \A i \in ptr + 1 .. q - 1 : Belongs(ptr, i)
         /\ q < Limit => ~Belongs(ptr, q) /\ input[q] \in NonPlain

(* Lexing ends, however the text is and wherever the parser gives up.      *)
Terminates == <>(phase \in {"done", "thrown", "aborted"})
=============================================================================
