------------------------------- MODULE LuaString -----------------------------
(***************************************************************************)
(* The String class of the scripts (lua_cstring of                         *)
(* src/testdrive_script.cpp): a text with a cursor that Tokenize and       *)
(* TokenizeVariable move, and methods that edit the text in between.       *)
(*                                                                         *)
(* A text is a sequence: 0 is a character of the delimiter, a number from  *)
(* 1 on another character, each number used once between two rewinds so    *)
(* that a character can be told from its copies.  Positions count from 0   *)
(* as in the code, and -1 is the cursor of a loop that is over.  What the  *)
(* methods of cstring do to the text is external: those the class rewinds  *)
(* after, or that keep the cursor, are one action each.                    *)
(* StringInit, StringNext and StringSpec are named so that a module can    *)
(* extend this one and LuaFiles.                                           *)
(***************************************************************************)
EXTENDS Integers, Sequences

CONSTANTS
  MaxLen,      \* bound on the length of a text, and on a cursor that insert moves
  MaxLetter    \* bound on the characters used between two rewinds

\* The texts a script starts over with fit.
ASSUME BoundsAssumption == MaxLen \in Nat \ 0 .. 2 /\ MaxLetter \in Nat \ 0 .. 2

VARIABLES
  text,        \* m_sStr
  cursor,      \* iTokenizePos
  next,        \* the next character that was not used yet
  given,       \* the characters tokens were made of since the cursor was last at rest
  behind,      \* the characters put in where the cursor had passed
  wild         \* the cursor no longer stands where the loop left it

StringVars == <<text, cursor, next, given, behind, wild>>

Letters(s) == { s[i] : i \in DOMAIN s } \ {0}

\* The character at a position, a delimiter outside of the text.
At(p) == IF p \in 0 .. Len(text) - 1 THEN text[p + 1] ELSE 0

\* Characters from position p to before position q.
Piece(p, q) == SubSeq(text, p + 1, q)
Ahead == IF cursor < 0 \/ cursor > Len(text) THEN <<>> ELSE Piece(cursor, Len(text))

\* What a script may put in: a delimiter, a character, or both.
Strings(n) == { <<>>, <<0>>, <<n>>, <<n, 0>>, <<0, n>> }

\* Texts a script may start over with.
Texts == { <<>>, <<1>>, <<1, 0, 2>>, <<0, 1, 2>> }

\* The cursor goes back to the start of a text s.
Rewind(s) ==
  /\ text' = s
  /\ cursor' = 0
  /\ next' = 3
  /\ given' = {} /\ behind' = {} /\ wild' = FALSE

StringInit ==
  /\ text \in Texts
  /\ cursor = 0
  /\ next = 3
  /\ given = {} /\ behind = {} /\ wild = FALSE

\* clear.
ClearText == Rewind(<<>>)

\* Set.
SetText == \E s \in Texts : Rewind(s)

\* ReadFile, and the methods that cut, delete, replace or trim.
Rewrite == \E s \in Texts : Rewind(s)

\* The text becomes s under the same cursor, which means nothing in it unless it is at the
\* start.
Exchange(s) ==
  /\ text' = s
  /\ next' = 3
  /\ given' = {} /\ behind' = {} /\ wild' = (cursor # 0)
  /\ UNCHANGED cursor

MakeFullPath == \E s \in Texts : Exchange(s)

\* GetEnvironment, FormatDate and ChangeCharset.
ReplaceText == \E s \in Texts : Exchange(s)

\* The script sets TokenizePos: at 0 a loop starts over.
SetTokenizeLuaPos(p) ==
  /\ cursor' = p
  /\ given' = {} /\ behind' = {} /\ wild' = (p # 0)
  /\ UNCHANGED <<text, next>>

Fits(s) == Len(text) + Len(s) <= MaxLen /\ next < MaxLetter

\* Mutant: the cursor follows the end of the text.
AppendMovesCursor(s) ==
  /\ Fits(s)
  /\ text' = text \o s
  /\ next' = next + 1
  /\ behind' = IF cursor < 0 THEN behind \cup Letters(s) ELSE behind
  /\ cursor' = cursor + Len(s)
  /\ UNCHANGED <<given, wild>>

\* Append: a loop that is over does not see it.
AppendText(s) ==
  /\ Fits(s)
  /\ text' = text \o s
  /\ next' = next + 1
  /\ behind' = IF cursor < 0 THEN behind \cup Letters(s) ELSE behind
  /\ UNCHANGED <<cursor, given, wild>>

\* The text and the characters that are new in it after s is put in at position p.
PutIn(p, s) ==
  /\ Fits(s) /\ cursor <= MaxLen
  /\ text' = Piece(0, p) \o s \o Piece(p, Len(text))
  /\ next' = next + 1
  /\ behind' = IF p < cursor \/ cursor < 0 THEN behind \cup Letters(s) ELSE behind
  /\ UNCHANGED <<given, wild>>

\* Mutant: the cursor stays when text is put in before it.
InsertKeepsCursor(p, s) ==
  /\ p \in 0 .. Len(text)
  /\ PutIn(p, s)
  /\ UNCHANGED cursor

\* Mutant: the cursor moves along with text put in at its own place.
InsertMovesAtCursor(p, s) ==
  /\ p \in 0 .. Len(text)
  /\ PutIn(p, s)
  /\ cursor' = IF p <= cursor THEN cursor + Len(s) ELSE cursor

\* insert before the cursor moves it by the length of what is put in.
Insert(p, s) ==
  /\ p \in 0 .. Len(text)
  /\ PutIn(p, s)
  /\ cursor' = IF p < cursor THEN cursor + Len(s) ELSE cursor

\* insert outside of the text throws, after it has moved the cursor.
InsertThrows(p, s) ==
  /\ p \notin 0 .. Len(text)
  /\ cursor <= MaxLen
  /\ cursor' = IF p < cursor THEN cursor + Len(s) ELSE cursor
  /\ wild' = (wild \/ cursor' # cursor)
  /\ UNCHANGED <<text, next, given, behind>>

\* erase, which leaves the cursor: what follows moves under it when it is behind.
Erase(p, n) ==
  /\ p \in 0 .. Len(text) - 1
  /\ text' = Piece(0, p) \o (IF p + n < Len(text) THEN Piece(p + n, Len(text)) ELSE <<>>)
  /\ wild' = (wild \/ (n > 0 /\ p < cursor))
  /\ UNCHANGED <<cursor, next, given, behind>>

\* Tokenize: the delimiters ahead are skipped and the characters up to the next one
\* returned; the cursor is after them, past the delimiter or not.  None is left: -1.
Tokenize ==
  \/ /\ Letters(Ahead) = {}
     /\ cursor' = -1
     /\ UNCHANGED <<text, next, given, behind, wild>>
  \/ \E p, q \in cursor .. Len(text) :
       /\ cursor >= 0 /\ p < q /\ At(q) = 0
       /\ \A i \in cursor .. q - 1 : At(i) = 0 <=> i < p
       /\ cursor' \in {q, q + 1} \cap 0 .. Len(text)
       /\ given' = given \cup Letters(Piece(p, q))
       /\ UNCHANGED <<text, next, behind, wild>>

\* TokenizeVariable on a cursor within the text: the text up to the next variable is
\* returned and the variable, of n characters, taken out of the text.  Without one all that
\* is left is returned, once.
TokenizeVariable ==
  /\ cursor \in 0 .. Len(text)
  /\ \/ /\ given' = given \cup Letters(Ahead)
        /\ cursor' = -1
        /\ UNCHANGED text
     \/ \E q \in cursor .. Len(text) - 1 : \E n \in 1 .. Len(text) - q :
          /\ given' = given \cup Letters(Piece(cursor, q))
          /\ cursor' = q
          /\ text' = Piece(0, q) \o Piece(q + n, Len(text))
  /\ UNCHANGED <<next, behind, wild>>

StringNext ==
  \/ ClearText \/ SetText \/ Rewrite \/ MakeFullPath \/ ReplaceText
  \/ \E p \in -1 .. MaxLen : SetTokenizeLuaPos(p)
  \/ \E s \in Strings(next) :
       AppendText(s) \/ \E p \in -1 .. MaxLen : Insert(p, s) \/ InsertThrows(p, s)
  \/ \E p, n \in 0 .. MaxLen : Erase(p, n)
  \/ Tokenize \/ TokenizeVariable

StringSpec == StringInit /\ [][StringNext]_StringVars

-----------------------------------------------------------------------------
(* Properties. *)

StringTypeOK ==
  /\ text \in Seq(0 .. MaxLetter) /\ Len(text) <= MaxLen
  /\ cursor \in -1 .. MaxLen + 2
  /\ next \in 3 .. MaxLetter
  /\ given \subseteq 1 .. MaxLetter /\ behind \subseteq 1 .. MaxLetter
  /\ wild \in BOOLEAN

\* A loop over the tokens of a text that is edited meanwhile returns no character twice,
\* as long as the script made none of the calls that strand the cursor: a failed insert
\* before the text, erase before the cursor, a change of the whole text, TokenizePos.
NothingRepeated == ~wild => cursor <= Len(text) /\ given \cap Letters(Ahead) = {}

\* Nor does it skip a character: one that is neither returned nor ahead was put in behind
\* the cursor, or after the loop was over.
NothingSkipped == ~wild => Letters(text) \subseteq given \cup behind \cup Letters(Ahead)
=============================================================================
