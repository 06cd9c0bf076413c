------------------------------ MODULE Alphabet ------------------------------
(***************************************************************************)
(* The symbols of a request, few of each kind the grammar tells apart.     *)
(***************************************************************************)
Nul == "NUL"
CR == "CR"
LF == "LF"
Tab == "HTAB"
DQuote == "DQUOTE"
Backslash == "\\"
Octet8 == "x80"       \* one of the characters %x80-FF

Digits == {"0", "1", "2", "5", "6", "9"}
Hex == {"A", "F"}     \* of the letters, those HEXDIG names
LowerHex == {"a", "f"}

\* Header field names and other words: runs of letters, digits and "-".
FieldWords == {"Host", "Connection", "Content-Length", "Content-Type",
               "Cookie", "Transfer-Encoding", "Expect"}
Words == FieldWords \cup
  {"GET", "HTTP", "http", "chunked", "compress", "deflate", "gzip", "100-continue"}

Letters == Hex \cup LowerHex \cup {"v", "z"} \cup Words
TokenSigns == {"!", "%", "-", "."}              \* of tchar's signs
SubDelims == {"!", ",", ";", "="}               \* of sub-delims
UnreservedSigns == {"-", "."}
Visible ==                                      \* %x21-7E
  Digits \cup Letters \cup TokenSigns \cup SubDelims
    \cup {":", "/", "?", "@", "[", "]", DQuote, Backslash}
Octets == Visible \cup {" ", Tab, CR, LF, Octet8}
=============================================================================
