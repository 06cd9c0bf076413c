---------------------------- MODULE Productions -----------------------------
(***************************************************************************)
(* The functions of parser.c, one definition each, made of the functions   *)
(* they call.  A Mark stands where the code forgets to free a temporary    *)
(* node, or frees an array again.                                          *)
(***************************************************************************)
EXTENDS Calls

Lost(name) == <<"lost in", name>>
FreedTwice == <<"freed twice in", "IPv6address">>

LostIfMatched(name, e) == e & Mark(Lost(name))
LostUnlessMatched(name, e) == e | (Mark(Lost(name)) & Fail)

\* check_sa(): a string in any case.
Colon == Sym(":")
Colons == Pair(":", ":")

CRLF == Pair(CR, LF)

\* The octets are counted before the node is made: its length is cut once.
message_body ==
  [start \in Lengths |-> [length \in Lengths |->
     LET own == (start + length) % LenMod
         last == own + Len(text) + Len(rest) + 1
         end == CHOOSE j \in own .. last :
                  At(j) \notin Octets /\ \A k \in own .. j - 1 : At(k) \in Octets
         node == [name |-> "message_body", start |-> own,
                  length |-> (end - own) % LenMod]
     IN [Hit((length + node.length) % LenMod) EXCEPT !.nodes = {node}]]]

obs_text == Sym(Octet8)
VCHAR_Strchr == Chars(Visible \cup {Nul})
VCHAR == Chars(Visible)
DIGIT == Chars(Digits)
ALPHA == Chars(Letters)
SP == Sym(" ")
HTAB == Sym(Tab)
DQUOTE == Sym(DQuote)

\* The node made for a letter or a digit stays, empty, before the one of a sign: it
\* is freed where neither matches.
AfterEmpty(e) ==
  [start \in Lengths |-> [length \in Lengths |->
     LET r == e[start][length] IN
     IF Found(r) THEN [r EXCEPT !.children = @ + 1] ELSE r]]

\* strchr(valids, c) also finds the zero byte that ends valids.
tchar == Rule("tchar", DIGIT | ALPHA | Chars(TokenSigns \cup {Nul}))
unreserved ==
  Rule("unreserved", ALPHA | DIGIT) | AfterEmpty(Chars(UnreservedSigns \cup {Nul}))
sub_delims == Chars(SubDelims \cup {Nul})
HEXDIG == Rule("HEXDIG", DIGIT | Chars(Hex \cup {Nul}))

token_OrEmpty == Rule("token", Star(tchar))
token == Rule("token", tchar & Star(tchar))
cookie_name == Rule("cookie_name", token)
field_name == Rule("field_name", token)
type == Rule("type", token)
subtype == Rule("subtype", token)
method == Rule("method", token)
port == Rule("port", Star(DIGIT))
connection_option == Rule("connection_option", token)

IPvFuture ==
  LET char == unreserved | sub_delims | Colon IN
  Rule("IPvFuture", Sym("v") & Plus(HEXDIG) & Sym(".") & Plus(char))

\* After "25" without a third digit of 0 to 5, the position is that of the "2"
\* again, which is a digit of 0 to 4: "25" is taken.
dec_octet ==
  Rule("dec_octet",
    Tmp(Sym("2") & Sym("5") & Opt(Chars({"0", "1", "2", "5"})))
    | Tmp(Sym("2") & Chars({"0", "1", "2"}) & DIGIT)
    | Tmp(Sym("1") & DIGIT & DIGIT)
    | Tmp(Chars(Digits \ {"0"}) & DIGIT)
    | DIGIT)

field_vchar == Rule("field_vchar", VCHAR | obs_text)
field_content ==
  Rule("field_content",
    field_vchar & Opt(Tmp((SP | HTAB) & Star(SP | HTAB) & field_vchar)))
obs_fold == Rule("obs_fold", CRLF & (SP | HTAB) & Star(Tmp(SP | HTAB)))
field_value == Rule("field_value", Star(field_content | obs_fold))
OWS == Rule("OWS", Star(SP | HTAB))
BWS == Rule("BWS", Star(SP | HTAB))

pct_encoded == Rule("pct_encoded", Sym("%") & HEXDIG & HEXDIG)
pchar ==
  Rule("pchar", unreserved | pct_encoded | sub_delims | Colon | Sym("@"))
segment == Rule("segment", Star(pchar))
query_OfSegments == Rule("query", Star(segment | Sym("/") | Sym("?")))
query == Rule("query", Star(pchar | Sym("/") | Sym("?")))
reg_name == Rule("reg_name", Star(unreserved | pct_encoded | sub_delims))

IPv4address ==
  LET part == dec_octet & Sym(".") IN
  Rule("IPv4address", part & part & part & dec_octet)
h16 == Rule("h16", HEXDIG & Opt(HEXDIG) & Opt(HEXDIG) & Opt(HEXDIG))
Group == h16 & Colon
TwoGroups == Group & Group
ThreeGroups == TwoGroups & Group
FourGroups == ThreeGroups & Group
FiveGroups == FourGroups & Group
SixGroups == FiveGroups & Group
ls32 ==
  Rule("ls32", LostIfMatched("ls32", Tmp(h16 & Colon & h16)) | IPv4address)

\* The loop of the last five blocks of IPv6address(): groups followed by ":",
\* n at most, until one is followed by "::".
Turn(found, more) == found | (Tmp(Group) & more)
LastHead == h16 & Colons
TwoHeads(found) == Turn(found, Turn(found, LastHead))
ThreeHeads(found) == Turn(found, TwoHeads(found))
FourHeads(found) == Turn(found, ThreeHeads(found))
FiveHeads(found) == Turn(found, FourHeads(found))
SixHeads(found) == Turn(found, FiveHeads(found))

FoundHead == LostIfMatched("IPv6address", Tmp(h16 & Colons))

IPv6_Full == Tmp(SixGroups & ls32)
IPv6_Leading ==
  Tmp(LostUnlessMatched("IPv6address", Colons) & FiveGroups
        & LostUnlessMatched("IPv6address", ls32))
IPv6_One ==
  Tmp(Opt(h16) & LostUnlessMatched("IPv6address", Colons) & FourGroups
        & LostUnlessMatched("IPv6address", ls32))
IPv6_Two ==
  LET head == Colons | (h16 & (Colons | (Colon & h16 & Colons))) IN
  Tmp(Tmp(head) & ThreeGroups & ls32)
IPv6_Three == Tmp((Tmp(TwoHeads(FoundHead)) | Colons) & TwoGroups & ls32)
IPv6_Four == Tmp((Tmp(ThreeHeads(FoundHead)) | Colons) & Group & ls32)
IPv6_Five == Tmp((Tmp(FourHeads(FoundHead)) | Colons) & ls32)
IPv6_Six_Unguarded ==
  Tmp((Tmp(FiveHeads(FoundHead & Mark(FreedTwice))) | Colons) & h16)
IPv6_Six == Tmp((Tmp(FiveHeads(FoundHead)) | Colons) & h16)

\* Here h16(node_tmp2) is called even if the groups were moved away with the
\* array that held them.
IPv6_Seven == Tmp(Tmp(SixHeads(FoundHead & Mark(FreedTwice))) | Colons)

IPv6address ==
  Rule("IPv6address",
    IPv6_Full | IPv6_Leading | IPv6_One | IPv6_Two | IPv6_Three | IPv6_Four
    | IPv6_Five | IPv6_Six | IPv6_Seven)

IP_literal == Rule("IP_literal", Sym("[") & (IPv6address | IPvFuture) & Sym("]"))
host == Rule("host", IP_literal | IPv4address | reg_name)
uri_host == Rule("uri_host", host)
Host == Rule("Host", uri_host & Opt(Tmp(Colon & port)))

cookie_octet == Chars(Visible \ {DQuote, ",", ";", Backslash})
\* A quote that is not closed is not tried as an empty value.
cookie_value ==
  Rule("cookie_value",
    Tmp(DQUOTE & Star(cookie_octet) & DQUOTE) | (NotAt(DQuote) & Star(cookie_octet)))
cookie_pair == Rule("cookie_pair", cookie_name & Sym("=") & cookie_value)
cookie_string ==
  Rule("cookie_string", cookie_pair & Star(Tmp(Sym(";") & SP & cookie_pair)))

qdtext ==
  Rule("qdtext", HTAB | SP | obs_text | Chars(Visible \ {DQuote, Backslash}))
quoted_pair ==
  Rule("quoted_pair", Sym(Backslash) & (HTAB | SP | VCHAR | obs_text))
quoted_string ==
  Rule("quoted_string", DQUOTE & Star(qdtext | quoted_pair) & DQUOTE)
parameter == Rule("parameter", token & Sym("=") & (token | quoted_string))
media_type ==
  Rule("media_type",
    type & Sym("/") & subtype & Star(Tmp(OWS & Sym(";") & OWS & parameter)))
Content_Type == Rule("Content_Type", media_type)

Content_Length == Rule("Content_Length", Plus(DIGIT))
Expect == Sym("100-continue")

parser_Connection ==
  Rule("Connection",
    Star(Tmp(Sym(",") & OWS)) & connection_option
      & Star(Tmp(OWS & Sym(",")) & Opt(Tmp(OWS & connection_option))))

transfer_parameter ==
  Rule("transfer_parameter",
    token & BWS & Sym("=") & BWS & (token | quoted_string))
transfer_extension ==
  Rule("transfer_extension",
    token & Star(Tmp(OWS & Sym(";") & OWS & transfer_parameter)))
transfert_coding ==
  Rule("transfert_coding",
    Chars({"chunked", "compress", "deflate", "gzip"}) | transfer_extension)
\* The temporary nodes of the first loop are never freed, the last one at least.
Transfert_encoding ==
  Rule("Transfert_encoding",
    Star(Tmp(Sym(",") & OWS)) & Mark(Lost("Transfert_encoding")) & transfert_coding
      & Star(Tmp(OWS & Sym(",")) & Opt(Tmp(OWS & transfert_coding))))

-----------------------------------------------------------------------------
Header(name, value) == Pair(name, ":") & OWS & value & OWS

Connection_header ==
  Rule("Connection_header", Header("Connection", parser_Connection))
Content_Length_header ==
  Rule("Content_Length_header", Header("Content-Length", Content_Length))
Content_Type_header ==
  Rule("Content_Type_header", Header("Content-Type", Content_Type))
Cookie_header == Rule("Cookie_header", Header("Cookie", cookie_string))
Transfer_Encoding_header ==
  Rule("Transfer_Encoding_header", Header("Transfer-Encoding", Transfert_encoding))
Expect_header == Rule("Expect_header", Header("Expect", Expect))
Host_header == Rule("Host_header", Header("Host", Host))

header_field ==
  Rule("header_field",
    Connection_header | Content_Length_header | Content_Type_header
    | Cookie_header | Transfer_Encoding_header | Expect_header | Host_header
    | (field_name & Colon & OWS & field_value & OWS))

HTTP_name == Rule("HTTP_name", Chars({"HTTP", "http"}))
parser_HTTP_version ==
  Rule("HTTP_version", HTTP_name & Sym("/") & DIGIT & Sym(".") & DIGIT)
absolute_path ==
  Rule("absolute_path", Sym("/") & segment & Star(Sym("/") & segment))
origin_form == Rule("origin_form", absolute_path & Opt(Tmp(Sym("?") & query)))
request_target == Rule("request_target", origin_form)
request_line ==
  Rule("request_line",
    method & SP & request_target & SP & parser_HTTP_version & CRLF)
start_line == Rule("start_line", request_line)
=============================================================================
