----------------------------- MODULE MCParsing -----------------------------
(* A small instance of Parsing for TLC. *)
EXTENDS Parsing

\* The headers end in 2 and 4; the characters before are one here.
MCHeaders == {<<56, 50>>, <<56, 52>>}

\* A body of one digit's length, one of two digits', one with an empty value.
MCSendable ==
  {<<Field(MsgType, TraceReq)>>,
   <<Field(MsgType, NewOrderSingle), Field(ClOrdID, <<97, 49, 97>>)>>,
   <<Field(Symbol, <<>>), Field(MsgType, MassQuote)>>}

\* The beginning of a header, a header with a BodyLength, two fields.
MCFollowing ==
  {<<56>>, <<56, 50, 53, SOH, 51>>, <<49, 49, Equals, 97, SOH, 55, Equals, SOH>>}

\* Two digits, a letter, a separator of each kind.
MCCharacters == {48, 52, 97, SOH, Equals}

=============================================================================
