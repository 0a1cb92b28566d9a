--------------------------------- MODULE Glob ---------------------------------
(***************************************************************************)
(* Matching a text against a pattern: globMatch of memstore/pattern.go,    *)
(* for KEYS and SCAN MATCH, and its copy in resp/glob.go, for PSUBSCRIBE,  *)
(* which has no backslash escapes.  A character is its code; patterns and  *)
(* texts are sequences of characters.                                      *)
(***************************************************************************)
EXTENDS Integers, Sequences

Star == 42
Dash == 45
Question == 63
OpenBracket == 91
Backslash == 92
CloseBracket == 93
Caret == 94

From(s, n) == SubSeq(s, n, Len(s))

(* Position of the first c in b, 0 if there is none. *)
indexByte(b, c) ==
  IF \E i \in 1..Len(b) : b[i] = c
  THEN CHOOSE i \in 1..Len(b) : b[i] = c /\ \A j \in 1..i - 1 : b[j] # c
  ELSE 0

(* Fault: the upper end of a range is left out. *)
BelowUpperEnd(lo, hi, c) == lo <= c /\ c < hi

WithinEnds(lo, hi, c) == lo <= c /\ c <= hi

(* matched[i]: c is listed at i or later. *)
matchClass(class, c) ==
  LET matched[i \in 1..Len(class) + 1] ==
        /\ i <= Len(class)
        /\ IF i + 2 <= Len(class) /\ class[i + 1] = Dash
           THEN WithinEnds(class[i], class[i + 2], c) \/ matched[i + 3]
           ELSE class[i] = c \/ matched[i + 1]
  IN  matched[1]

(* matches[i][j]: pattern[i:] matches s[j:].  `escapes': the backslash     *)
(* case, which only pattern.go has.                                        *)
globMatchBytes(pattern, s, escapes) ==
  LET matches[i \in 1..Len(pattern) + 1] ==
        [j \in 1..Len(s) + 1 |->
           LET p == From(pattern, i)
               t == From(s, j)
               One(fits, width) ==   \* the next character fits, and the rest matches the rest
                 t # <<>> /\ fits /\ matches[i + width][j + 1]
               end    == indexByte(p, CloseBracket)
               class  == SubSeq(p, 2, end - 1)
               negate == class # <<>> /\ class[1] = Caret
           IN  CASE p = <<>> -> t = <<>>
                 [] p # <<>> /\ p[1] = Star ->
                      \/ \A k \in 1..Len(p) : p[k] = Star
                      \/ \E k \in j..Len(s) + 1 : matches[i + 1][k]
                 [] p # <<>> /\ p[1] = Question -> One(TRUE, 1)
                 [] p # <<>> /\ p[1] = OpenBracket /\ end = 0 -> One(t[1] = OpenBracket, 1)
                 [] p # <<>> /\ p[1] = OpenBracket /\ end # 0 ->
                      One(matchClass(IF negate THEN Tail(class) ELSE class, t[1]) # negate, end)
                 [] escapes /\ Len(p) > 1 /\ p[1] = Backslash -> One(t[1] = p[2], 2)
                 [] OTHER -> One(t[1] = p[1], 1)]
  IN  matches[1][1]

(* The two matchers. *)
keyGlobMatch(pattern, s) == globMatchBytes(pattern, s, TRUE)
channelGlobMatch(pattern, s) == globMatchBytes(pattern, s, FALSE)

-----------------------------------------------------------------------------
(* The reference: the texts, of a given set, that a pattern stands for.    *)

(* The characters of a class. *)
Listed(class) ==
  LET listed[i \in 1..Len(class) + 1] ==
        IF i > Len(class) THEN {}
        ELSE IF i + 2 <= Len(class) /\ class[i + 1] = Dash
             THEN (class[i] .. class[i + 2]) \cup listed[i + 3]
             ELSE {class[i]} \cup listed[i + 1]
  IN  listed[1]

(* The first item of a pattern: what it stands for, how long it is. *)
FirstItem(p, escapes, texts) ==
  LET single  == {t \in texts : Len(t) = 1}
      end     == indexByte(p, CloseBracket)
      In(S)   == {t \in single : t[1] \in S}
      Item(w, T) == [width |-> w, texts |-> T]
  IN  CASE p[1] = Star -> Item(1, texts)
        [] p[1] = Question -> Item(1, single)
        [] p[1] = OpenBracket /\ end > 2 /\ p[2] = Caret ->
             Item(end, single \ In(Listed(SubSeq(p, 3, end - 1))))
        [] p[1] = OpenBracket /\ end > 0 /\ ~(end > 2 /\ p[2] = Caret) ->
             Item(end, In(Listed(SubSeq(p, 2, end - 1))))
        [] p[1] = Backslash /\ escapes /\ Len(p) > 1 -> Item(2, In({p[2]}))
        [] OTHER -> Item(1, In({p[1]}))

Language(p, escapes, texts) ==
  LET language[i \in 1..Len(p) + 1] ==
        IF i > Len(p) THEN {<<>>}
        ELSE LET item == FirstItem(From(p, i), escapes, texts)
             IN  {a \o b : a \in item.texts, b \in language[i + item.width]} \cap texts
  IN  language[1]

(* Both matchers accept exactly the texts the pattern stands for, whatever *)
(* stars, classes, ranges, unclosed brackets and escapes it is made of;    *)
(* without a backslash the two agree, as glob.go says they do.             *)
GlobMatchesLanguage(p, texts) ==
  /\ {t \in texts : keyGlobMatch(p, t)} = Language(p, TRUE, texts)
  /\ {t \in texts : channelGlobMatch(p, t)} = Language(p, FALSE, texts)
  /\ \/ Backslash \in {p[i] : i \in 1..Len(p)}
     \/ \A t \in texts : keyGlobMatch(p, t) = channelGlobMatch(p, t)
=============================================================================
