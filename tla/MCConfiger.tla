------------------------------ MODULE MCConfiger ------------------------------
(* Instances of Configer for TLC.  Texts are strings that stand for classes: *)
(* "a", "b" plain words, "q" a word with a double quote in it (the parser    *)
(* stops there), "e" one with an escape sequence (read back as "x"), "1.1",  *)
(* "2.2", "3.3" valid addresses, "9.9" one only the prompt accepts, "long"  *)
(* a plain text that only fits into a password.                             *)
EXTENDS Configer

ShortTexts == {"", "a", "b", "1.1", "2.2", "3.3", "9.9", "q", "e", "x"}
AllText == ShortTexts \cup {"long"}

Reads ==
  [t \in AllText |-> CASE t = "q" -> Unparsable [] t = "e" -> "x" [] OTHER -> t]

\* A device has 80 to 82 characters, one with a long password about 182: with a
\* buffer of 373 and a slack of 90, two long ones lose a newline, and a long one
\* behind a short and a long one loses the end of its password.
Lengths == [t \in AllText \cup {"mikrotik"} |-> IF t = "long" THEN 100 ELSE Len(t)]

Addresses == {"1.1", "2.2", "3.3", "9.9"}
GoodAddresses == {"1.1", "2.2", "3.3"}

Plain(n, a) ==
  [name |-> n, type |-> "mikrotik", ip |-> a, username |-> "a", password |-> ""]

\* A text with two devices (the second without a name or with the address of
\* the first), and one that does not parse.
Edited ==
  {<<Plain("b", "1.1"), Plain("", "2.2")>>, <<Plain("a", "1.1"), Plain("b", "1.1")>>,
   <<Plain(Unparsable, "1.1")>>}

MikroTik == {"mikrotik"}
NoFaults == {}
NoEdited == {}
EveryFault == {"io", "kill", "power", "remove"}
OneName == {"a"}

\* A device with a quote in its name, and one without a name, which the import
\* drops.
QuoteEdited == {<<Plain("q", "1.1"), Plain("", "2.2")>>}

OddNames == {"", "a", "q", "e"}
OneAddress == {"1.1"}
TwoAddresses == {"1.1", "9.9"}
Users == {"a"}
OnePassword == {""}
Passwords == {"", "long"}
PlainNames == {"a", "b", "x"}
=============================================================================
