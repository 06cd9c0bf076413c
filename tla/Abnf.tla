-------------------------------- MODULE Abnf --------------------------------
(***************************************************************************)
(* The rules of allrfc.abnf that HTTP-message is made of, as they are      *)
(* written there: the reference the parser is compared with.  A string of  *)
(* ABNF is of any case, so HEXDIG is "A" and "a"; HexLetters leaves the    *)
(* choice to the property that uses the rules.                             *)
(***************************************************************************)
EXTENDS Grammar, Alphabet

CONSTANT HexLetters

DIGIT == Chars(Digits)
SP == Sym(" ")
CRLF == Sym(CR) & Sym(LF)
HEXDIG == Chars(Digits \cup HexLetters)
OWS == Star(Chars({" ", Tab}))
token == Plus(Chars(Digits \cup Letters \cup TokenSigns))
obs_text == Sym(Octet8)
quoted_string ==
  LET qdtext == Chars({Tab, " ", Octet8} \cup (Visible \ {DQuote, Backslash}))
      quoted_pair == Sym(Backslash) & Chars({Tab, " ", Octet8} \cup Visible)
  IN Sym(DQuote) & Star(qdtext | quoted_pair) & Sym(DQuote)

unreserved == Chars(Letters \cup Digits \cup UnreservedSigns)
sub_delims == Chars(SubDelims)
pct_encoded == Sym("%") & HEXDIG & HEXDIG
pchar == unreserved | pct_encoded | sub_delims | Sym(":") | Sym("@")
segment == Star(pchar)
absolute_path == Plus(Sym("/") & segment)
query == Star(pchar | Sym("/") | Sym("?"))
HTTP_version == Sym("HTTP") & Sym("/") & DIGIT & Sym(".") & DIGIT
origin_form == absolute_path & Opt(Sym("?") & query)
start_line == token & SP & origin_form & SP & HTTP_version & CRLF

dec_octet ==
  (Sym("2") & Sym("5") & Chars({"0", "1", "2", "5"}))
  | (Sym("2") & Chars({"0", "1", "2"}) & DIGIT)
  | (Sym("1") & DIGIT & DIGIT)
  | (Chars(Digits \ {"0"}) & DIGIT)
  | DIGIT
IPv4address == Times(3, dec_octet & Sym(".")) & dec_octet
h16 == HEXDIG & Opt(HEXDIG) & Opt(HEXDIG) & Opt(HEXDIG)
Group == h16 & Sym(":")
ls32 == (Group & h16) | IPv4address
Compressed(n) == Opt(UpTo(n, Group, h16)) & Sym(":") & Sym(":")
IPv6address ==
  (Times(6, Group) & ls32)
  | (Sym(":") & Sym(":") & Times(5, Group) & ls32)
  | (Compressed(0) & Times(4, Group) & ls32)
  | (Compressed(1) & Times(3, Group) & ls32)
  | (Compressed(2) & Times(2, Group) & ls32)
  | (Compressed(3) & Group & ls32)
  | (Compressed(4) & ls32)
  | (Compressed(5) & h16)
  | Compressed(6)
IPvFuture ==
  Sym("v") & Plus(HEXDIG) & Sym(".") & Plus(unreserved | sub_delims | Sym(":"))
IP_literal == Sym("[") & (IPv6address | IPvFuture) & Sym("]")
reg_name == Star(unreserved | pct_encoded | sub_delims)
host == IP_literal | IPv4address | reg_name
Host == host & Opt(Sym(":") & Star(DIGIT))

List(e) ==
  Star(Sym(",") & OWS) & e & Star(OWS & Sym(",") & Opt(OWS & e))
Connection == List(token)
Content_Length == Plus(DIGIT)
parameter == token & Sym("=") & (token | quoted_string)
media_type == token & Sym("/") & token & Star(OWS & Sym(";") & OWS & parameter)
transfer_parameter == token & OWS & Sym("=") & OWS & (token | quoted_string)
transfer_coding ==
  Chars({"chunked", "compress", "deflate", "gzip"})
  | (token & Star(OWS & Sym(";") & OWS & transfer_parameter))
Transfer_Encoding == List(transfer_coding)
cookie_octet == Chars(Visible \ {DQuote, ",", ";", Backslash})
cookie_value == (Sym(DQuote) & Star(cookie_octet) & Sym(DQuote)) | Star(cookie_octet)
cookie_pair == token & Sym("=") & cookie_value
cookie_string == cookie_pair & Star(Sym(";") & SP & cookie_pair)

Header(name, value) == Sym(name) & Sym(":") & OWS & value & OWS
SpecificHeader ==
  Header("Connection", Connection) | Header("Content-Length", Content_Length)
  | Header("Content-Type", media_type) | Header("Cookie", cookie_string)
  | Header("Transfer-Encoding", Transfer_Encoding)
  | Header("Expect", Sym("100-continue")) | Header("Host", Host)

field_vchar == Chars(Visible \cup {Octet8})
field_content == field_vchar & Opt(Plus(Chars({" ", Tab})) & field_vchar)
obs_fold == CRLF & Plus(Chars({" ", Tab}))
field_value == Star(field_content | obs_fold)
header_field ==
  SpecificHeader | (token & Sym(":") & OWS & field_value & OWS)
message_body == Star(Chars(Octets))
HTTP_message == start_line & Star(header_field & CRLF) & CRLF & Opt(message_body)

-----------------------------------------------------------------------------
\* Fields that the properties single out.
IPv4Header == Header("Host", IPv4address & Opt(Sym(":") & Star(DIGIT)))
CodingField == Sym("Transfer-Encoding") & Sym(":")
CodingGoesOn ==
  Sym("Transfer-Encoding") & Star(Chars(Octets \ {CR}))
    & Chars({"chunked", "compress", "deflate", "gzip"})
    & OWS & (token | Sym(";"))
HostLiteral == Sym("Host") & Sym(":") & OWS & Sym("[")
TrailingColons ==
  HostLiteral & UpTo(5, Group, h16) & Sym(":") & Sym(":")
    & Chars(Octets \ (Digits \cup Hex))
=============================================================================
