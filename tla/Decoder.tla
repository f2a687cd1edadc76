------------------------------ MODULE Decoder ------------------------------
(***************************************************************************)
(* The ITCH decoder of src/itch/decoder.cpp.  A payload is a type, a size   *)
(* and the set of its fields whose value breaks the rule for that field:    *)
(* which bytes they hold does not matter here, which of them is found first *)
(* does.  The fields of every message, the lengths a payload must have and  *)
(* the checks with the offsets they report are three tables of the code     *)
(* that have to agree.                                                       *)
(***************************************************************************)
EXTENDS Integers, Sequences, FiniteSetsExt, SequencesExt

CONSTANTS Unknown  \* a type byte that is no message type

----------------------------------------------------------------------------
(* Fields, in the order and with the widths that decode() reads them *)

\* A table by message type from its three parts.
Joined(f, g, h) ==
  [type \in DOMAIN f \cup DOMAIN g \cup DOMAIN h |->
     IF type \in DOMAIN f THEN f[type] ELSE IF type \in DOMAIN g THEN g[type] ELSE h[type]]

Field(name, size) == [name |-> name, size |-> size]
Stock == Field("stock", 8)
Reference == Field("order_reference", 8)
Match == Field("match_number", 8)
Shares4 == Field("shares", 4)
Price4 == Field("price", 4)
Flag(name) == Field(name, 1)
Side1 == Flag("side")
Value4(name) == Field(name, 4)
Value8(name) == Field(name, 8)

CommonHeader ==
  <<Flag("type"), Field("stock_locate", 2), Field("tracking_number", 2),
    Field("timestamp", 6)>>

\* The structs of messages.hpp.
ReferenceBody ==
  [S |-> <<Flag("event_code")>>,
   R |-> <<Stock, Flag("market_category"), Flag("financial_status"), Value4("round_lot_size"),
           Flag("round_lots_only"), Flag("issue_classification"), Field("issue_sub_type", 2),
           Flag("authenticity"), Flag("short_sale_threshold_indicator"), Flag("ipo_flag"),
           Flag("luld_reference_price_tier"), Flag("etp_flag"), Value4("etp_leverage_factor"),
           Flag("inverse_indicator")>>,
   H |-> <<Stock, Flag("trading_state"), Flag("reserved"), Field("reason", 4)>>,
   Y |-> <<Stock, Flag("action")>>,
   L |-> <<Field("mpid", 4), Stock, Flag("primary_market_maker"), Flag("market_maker_mode"),
           Flag("market_participant_state")>>,
   V |-> <<Value8("level_1"), Value8("level_2"), Value8("level_3")>>,
   W |-> <<Flag("breached_level")>>,
   K |-> <<Stock, Value4("ipo_quotation_release_time"),
           Flag("ipo_quotation_release_qualifier"), Value4("ipo_price")>>,
   J |-> <<Stock, Value4("auction_collar_reference_price"),
           Value4("upper_auction_collar_price"), Value4("lower_auction_collar_price"),
           Value4("auction_collar_extension")>>,
   h |-> <<Stock, Flag("market_code"), Flag("operational_halt_action")>>]
OrderBody ==
  [A |-> <<Reference, Side1, Shares4, Stock, Price4>>,
   F |-> <<Reference, Side1, Shares4, Stock, Price4, Field("attribution", 4)>>,
   E |-> <<Reference, Shares4, Match>>,
   C |-> <<Reference, Shares4, Match, Flag("printable"), Price4>>,
   X |-> <<Reference, Shares4>>,
   D |-> <<Reference>>,
   U |-> <<Reference, Value8("new_order_reference"), Shares4, Price4>>]
TradeBody ==
  [P |-> <<Reference, Side1, Shares4, Stock, Price4, Match>>,
   Q |-> <<Value8("shares"), Stock, Value4("cross_price"), Match, Flag("cross_type")>>,
   B |-> <<Match>>,
   I |-> <<Value8("paired_shares"), Value8("imbalance_shares"), Flag("imbalance_direction"),
           Stock, Value4("far_price"), Value4("near_price"), Value4("current_reference_price"),
           Flag("cross_type"), Flag("price_variation_indicator")>>,
   N |-> <<Stock, Flag("interest_flag")>>,
   O |-> <<Stock, Flag("open_eligibility_status"), Value4("minimum_allowable_price"),
           Value4("maximum_allowable_price"), Value4("near_execution_price"),
           Value8("near_execution_time"), Value4("lower_price_range_collar"),
           Value4("upper_price_range_collar")>>]

Body == Joined(ReferenceBody, OrderBody, TradeBody)

MessageType == DOMAIN Body
Fields(type) == CommonHeader \o Body[type]

\* Where each read ends: End[type][i] is the reader's position after i fields.
End ==
  [type \in MessageType |->
    [n \in 0..Len(Fields(type)) |-> SumFunction([i \in 1..n |-> Fields(type)[i].size])]]
Width(type) == End[type][Len(Fields(type))]
StartOf(type, name) ==
  End[type][(CHOOSE i \in DOMAIN Fields(type) : Fields(type)[i].name = name) - 1]

\* mutant: a length is off by one
LengthsOffByOne ==
  [type \in MessageType |-> IF type = "C" THEN 37 ELSE Width(type)]
expected_payload_length ==
  [S |-> 12, W |-> 12, R |-> 39, H |-> 25, Y |-> 20, N |-> 20, L |-> 26, V |-> 35, J |-> 35,
   U |-> 35, K |-> 28, h |-> 21, A |-> 36, C |-> 36, F |-> 40, Q |-> 40, E |-> 31, X |-> 23,
   D |-> 19, B |-> 19, P |-> 44, I |-> 50, O |-> 48]

----------------------------------------------------------------------------
(* Checks: of which fields, reported how and at which offset, in order *)

Check(names, category, offset) == [names |-> names, category |-> category, offset |-> offset]
InvalidField(offset, names) == Check(names, "InvalidField", offset)
EnumAtPriorByte(offset, names) ==  \* mutant: the offset of the byte before
  Check(names, "InvalidEnum", offset - 1)
InvalidEnum(offset, names) == Check(names, "InvalidEnum", offset)
NoLocate == InvalidField(1, {"stock_locate"})
OrderShares == {"order_reference", "shares"}
StockText == InvalidField(11, {"stock"})

ReferenceChecks ==
  [S |-> <<NoLocate, InvalidEnum(11, {"event_code"})>>,
   R |-> <<InvalidField(11, {"stock", "issue_sub_type"}), InvalidEnum(19, {"market_category"}),
           InvalidEnum(20, {"financial_status", "round_lots_only", "authenticity",
             "short_sale_threshold_indicator", "ipo_flag", "luld_reference_price_tier",
             "etp_flag", "inverse_indicator"})>>,
   H |-> <<InvalidField(11, {"stock", "reason", "reserved"}), InvalidEnum(19, {"trading_state"})>>,
   Y |-> <<StockText, InvalidEnum(19, {"action"})>>,
   L |-> <<InvalidField(11, {"mpid", "stock"}),
           InvalidEnum(23, {"primary_market_maker", "market_maker_mode",
             "market_participant_state"})>>,
   V |-> <<NoLocate>>,
   W |-> <<NoLocate, InvalidEnum(11, {"breached_level"})>>,
   K |-> <<InvalidField(1, {"stock_locate", "stock"}),
           InvalidEnum(23, {"ipo_quotation_release_qualifier"}),
           InvalidField(24, {"ipo_price"})>>,
   J |-> <<InvalidField(11, {"stock", "auction_collar_reference_price",
             "upper_auction_collar_price", "lower_auction_collar_price"})>>,
   h |-> <<StockText, InvalidEnum(19, {"market_code", "operational_halt_action"})>>]
OrderChecks ==
  [A |-> <<InvalidEnum(19, {"side"}), InvalidField(11, OrderShares \cup {"stock", "price"})>>,
   F |-> <<InvalidEnum(19, {"side"}),
           InvalidField(11, OrderShares \cup {"stock", "attribution", "price"})>>,
   E |-> <<InvalidField(11, OrderShares)>>,
   C |-> <<InvalidEnum(31, {"printable"}), InvalidField(11, OrderShares \cup {"price"})>>,
   X |-> <<InvalidField(11, OrderShares)>>,
   D |-> <<InvalidField(11, {"order_reference"})>>,
   U |-> <<InvalidField(11, OrderShares \cup {"new_order_reference", "price"})>>]
TradeChecks ==
  [P |-> <<InvalidEnum(19, {"side"}), InvalidField(20, {"shares", "stock", "price"})>>,
   Q |-> <<InvalidField(19, {"stock", "cross_price"}), InvalidEnum(39, {"cross_type"})>>,
   B |-> <<>>,
   I |-> <<InvalidField(28, {"stock", "far_price", "near_price", "current_reference_price"}),
           InvalidEnum(27, {"imbalance_direction", "cross_type", "price_variation_indicator"})>>,
   N |-> <<StockText, InvalidEnum(19, {"interest_flag"})>>,
   O |-> <<StockText, InvalidEnum(19, {"open_eligibility_status"}),
           InvalidField(20, {"minimum_allowable_price", "maximum_allowable_price",
             "near_execution_price", "lower_price_range_collar", "upper_price_range_collar"})>>]
Checks == Joined(ReferenceChecks, OrderChecks, TradeChecks)

\* The fields of a message whose value obeys a rule: the others hold what they may.
Ruled(type) == {"timestamp"} \cup UNION {Checks[type][i].names : i \in DOMAIN Checks[type]}

Error(category, offset) == [category |-> category, offset |-> offset]
Decoded == Error("ok", 0)

\* Where the reader stands when a payload of this size ends under it.
ReaderStops(type, size) == Max({End[type][i] : i \in DOMAIN End[type]} \cap 0..size)

\* Decoder::decode
decode(p) ==
  LET headed == p.size >= End[p.type][Len(CommonHeader)]
      failing == {i \in DOMAIN Checks[p.type] : Checks[p.type][i].names \cap p.bad # {}}
  IN  IF headed /\ "timestamp" \in p.bad THEN Error("InvalidField", 5)
      ELSE IF p.size < Width(p.type)
           THEN Error("LengthMismatch", ReaderStops(p.type, p.size))
      ELSE IF failing = {} THEN Decoded
      ELSE LET check == Checks[p.type][Min(failing)]
           IN  Error(check.category, check.offset)

decode_message(p) ==
  IF p.size = 0 THEN Error("EmptyPayload", 0)
  ELSE IF p.type \notin MessageType THEN Error("UnknownMessageType", 0)
  ELSE IF p.size # expected_payload_length[p.type] THEN Error("LengthMismatch", 0)
  ELSE decode(p)
=============================================================================
