------------------------------ MODULE Catalog ------------------------------
(***************************************************************************)
(* What a link and the catalog's answer to it become: the reference        *)
(* parseNoonProductUrl finds in the link, the offers the payload parser    *)
(* and the snapshot mapper accept, the leader NoonService selects, and the *)
(* list BotService shows.  All of it is computed; the state is what comes  *)
(* from outside, a link and an answer that grows offer by offer.           *)
(*                                                                         *)
(* Amounts are [whole, frac] with the digits after the point as a          *)
(* sequence; offer codes are ordered numbers, as localeCompare orders the  *)
(* code's strings; no code occurs twice in a variant.  Names, titles and   *)
(* the delivery context are left out.                                      *)
(***************************************************************************)
EXTENDS Integers, SequencesExt

CONSTANTS
  Links,      \* what chats send: [https, host, path, code]
  Words,      \* words of paths that look like a SKU (letters and digits)
  Skus,       \* SKUs of the variants of answers
  Codes,      \* offer codes
  NoCode,     \* null: no offer code
  RawOffers,  \* offers of answers: [code, config, cost, buyable], config the SKU or ""
  NoAmount,   \* null: no sale price
  Answered,   \* the links whose answers are enumerated
  MaxVariants,\* bound on the variants of an answer
  MaxOffers,  \* bound on the offers of an answer
  MaxSafe,    \* Number.MAX_SAFE_INTEGER
  MaxPrice,   \* MAX_PRICE_MINOR
  MaxLength   \* MAX_TELEGRAM_MESSAGE_LENGTH

Amounts == [whole : Nat, frac : Seq(0..9)]

ASSUME CatalogAssumption ==
  /\ Codes \subseteq Nat \ {0}
  /\ NoCode = 0
  /\ \A raw \in RawOffers :
       /\ raw.code \in Codes \cup {NoCode}
       /\ raw.cost.price \in Amounts
       /\ raw.cost.sale \in Amounts \cup {NoAmount}
       /\ raw.buyable \in BOOLEAN
  /\ Answered \subseteq Links
  /\ {MaxVariants, MaxOffers, MaxSafe, MaxPrice, MaxLength} \subseteq Nat

VARIABLES
  link,      \* the link of a chat
  answer     \* the variants of the catalog's answer: [sku, offers]

catalogVars == <<link, answer>>

Rejected == -1

-----------------------------------------------------------------------------
(* parseNoonProductUrl.  A segment of a path is a word, in upper case or not. *)

Lower(word) == [word |-> word, upper |-> FALSE]
Upper(word) == [word |-> word, upper |-> TRUE]

AtEnd(path, n) == path[Len(path) + 1 - n]

LinkAccepted(url) ==
  /\ url.https
  /\ url.host \in {"noon.com", "www.noon.com"}
  /\ Len(url.path) >= 3
  /\ url.path[1].word = "uae-en"
  /\ AtEnd(url.path, 1).word = "p"
  /\ AtEnd(url.path, 2).word \in Words

\* The SKU's word stands for its upper case, which is how it is kept.
Reference(url) ==
  [slug |-> AtEnd(url.path, 3), sku |-> AtEnd(url.path, 2).word, code |-> url.code]

CanonicalUrl(ref) ==
  [https |-> TRUE, host |-> "www.noon.com",
   path |-> <<Lower("uae-en"), ref.slug, Upper(ref.sku), Lower("p")>>, code |-> NoCode]

-----------------------------------------------------------------------------
(* parseNoonCatalogPayload *)

\* Mutant: one digit after the point counts for hundredths.
PadStart(frac) ==
  CASE frac = <<>> -> 0
    [] Len(frac) = 1 -> frac[1]
    [] OTHER -> 10 * frac[1] + frac[2]

\* padEnd(2, '0')
Pad(frac) ==
  CASE frac = <<>> -> 0
    [] Len(frac) = 1 -> 10 * frac[1]
    [] OTHER -> 10 * frac[1] + frac[2]

ParseAedToMinorUnits(a) ==
  LET minor == 100 * a.whole + Pad(a.frac) IN
  IF Len(a.frac) <= 2 /\ minor <= MaxSafe THEN minor ELSE Rejected

\* The sale price, if there is one.
Stated(raw) == IF raw.cost.sale = NoAmount THEN raw.cost.price ELSE raw.cost.sale

OfferAccepted(raw) ==
  /\ raw.code # NoCode
  /\ ParseAedToMinorUnits(raw.cost.price) # Rejected
  /\ ParseAedToMinorUnits(Stated(raw)) # Rejected

ParseOffer(raw) ==
  [offerId |-> raw.code, priceMinor |-> ParseAedToMinorUnits(Stated(raw)),
   available |-> raw.buyable]

\* One offer that cannot be read makes the whole answer unreadable.
PayloadAccepted(variants) ==
  \A i \in DOMAIN variants : \A j \in DOMAIN variants[i].offers :
    OfferAccepted(variants[i].offers[j])

-----------------------------------------------------------------------------
(* mapNoonCatalogSnapshot *)

Carries(variant, sku) ==
  \/ variant.sku = sku
  \/ \E j \in DOMAIN variant.offers : variant.offers[j].config = sku

HasOffer(variant, code) ==
  code # NoCode /\ \E j \in DOMAIN variant.offers : variant.offers[j].code = code

\* Mutant: the variant of the requested offer comes first.
OfferCodeFirst(variants, ref) ==
  LET byCode == SelectInSeq(variants, LAMBDA v : HasOffer(v, ref.code)) IN
  IF byCode # 0 THEN byCode
  ELSE SelectInSeq(variants, LAMBDA v : Carries(v, ref.sku))

\* The first variant that has the SKU or the requested offer; 0 without one.
FindVariant(variants, ref) ==
  SelectInSeq(variants, LAMBDA v : Carries(v, ref.sku) \/ HasOffer(v, ref.code))

Cheaper(a, b) ==
  a.priceMinor < b.priceMinor \/ (a.priceMinor = b.priceMinor /\ a.offerId < b.offerId)

\* Array.prototype.sort, of offers no two of which are the same.
Sorted(offers, before(_, _)) ==
  CHOOSE sorted \in [DOMAIN offers -> ToSet(offers)] :
    ToSet(sorted) = ToSet(offers) /\ IsSorted(sorted, before)

Parsed(variant) == [j \in DOMAIN variant.offers |-> ParseOffer(variant.offers[j])]

SnapshotOffers(variant) == Sorted(Parsed(variant), Cheaper)

-----------------------------------------------------------------------------
(* NoonService *)

NoOffer == [offerId |-> NoCode, priceMinor |-> 0, available |-> FALSE]

\* Array.prototype.filter, for the offers that are in the set.
Filter(offers, kept) ==
  FoldLeft(LAMBDA acc, o : IF o \in kept THEN Append(acc, o) ELSE acc, <<>>, offers)

Available(offers) == Filter(offers, {o \in ToSet(offers) : o.available})

\* Mutant: offers at the same price are not told apart.
FirstCheapest(offers) ==
  IF Available(offers) = <<>> THEN NoOffer
  ELSE FoldLeft(LAMBDA l, o : IF o.priceMinor < l.priceMinor THEN o ELSE l,
                Available(offers)[1], Tail(Available(offers)))

SelectLeader(offers) ==
  IF Available(offers) = <<>> THEN NoOffer
  ELSE FoldLeft(LAMBDA l, o : IF Cheaper(o, l) THEN o ELSE l,
                Available(offers)[1], Tail(Available(offers)))

\* Mutant: the target price itself is not reached.
SelectOfferBelow(offers, target) ==
  SelectLeader(Filter(offers, {o \in ToSet(offers) : o.priceMinor < target}))

SelectOfferAtOrBelow(offers, target) ==
  SelectLeader(Filter(offers, {o \in ToSet(offers) : o.priceMinor <= target}))

-----------------------------------------------------------------------------
(* bot-presenter *)

\* Mutant: the fils are not padded.
FormatUnpadded(minor) ==
  [whole |-> minor \div 100,
   frac |-> IF minor % 100 < 10 THEN <<minor % 100>>
            ELSE <<(minor % 100) \div 10, minor % 10>>]

\* The amount, without the currency in front of it, which parseTargetPriceMinor would
\* not accept.
FormatPrice(minor) ==
  [whole |-> minor \div 100, frac |-> <<(minor % 100) \div 10, minor % 10>>]

ParseTargetPriceMinor(a) ==
  LET minor == 100 * a.whole + Pad(a.frac) IN
  IF Len(a.frac) <= 2 /\ minor \in 1..MaxPrice THEN minor ELSE Rejected

\* The available offers, the leader first.
Listed(offers, leader) ==
  LET before(a, b) == \/ a.offerId = leader.offerId
                      \/ b.offerId # leader.offerId /\ Cheaper(a, b)
  IN Sorted(Available(offers), before)

\* Lengths stand for texts: the two headers, and a line with its line break.
Header == 2
HeaderAgain == 3
Line(offer) == 2 + offer.offerId

\* Mutant: the line that does not fit is left out of the next message.
ChunkDropsLine(lines) ==
  LET step(acc, o) ==
        IF acc.length + Line(o) > MaxLength
          THEN [sent |-> Append(acc.sent, acc.current), current |-> <<>>,
                length |-> HeaderAgain]
          ELSE [acc EXCEPT !.current = Append(@, o), !.length = @ + Line(o)]
      last == FoldLeft(step, [sent |-> <<>>, current |-> <<>>, length |-> Header], lines)
  IN Append(last.sent, last.current)

ChunkLines(lines) ==
  LET step(acc, o) ==
        IF acc.length + Line(o) > MaxLength
          THEN [sent |-> Append(acc.sent, acc.current), current |-> <<o>>,
                length |-> HeaderAgain + Line(o)]
          ELSE [acc EXCEPT !.current = Append(@, o), !.length = @ + Line(o)]
      last == FoldLeft(step, [sent |-> <<>>, current |-> <<>>, length |-> Header], lines)
  IN Append(last.sent, last.current)

OfferListMessages(offers, leader) == ChunkLines(Listed(offers, leader))

-----------------------------------------------------------------------------
(* Links and answers. *)

CatalogInit ==
  /\ link \in Links
  /\ answer = <<>>

AddVariant(sku) ==
  /\ link \in Answered
  /\ PayloadAccepted(answer)
  /\ Len(answer) < MaxVariants
  /\ answer' = Append(answer, [sku |-> sku, offers |-> <<>>])
  /\ UNCHANGED link

OfferCount == FoldLeft(LAMBDA n, v : n + Len(v.offers), 0, answer)

AddOffer(raw) ==
  LET last == Len(answer) IN
  /\ answer # <<>>
  /\ PayloadAccepted(answer)
  /\ OfferCount < MaxOffers
  /\ \A j \in DOMAIN answer[last].offers : answer[last].offers[j].code # raw.code
  /\ answer' = [answer EXCEPT ![last].offers = Append(@, raw)]
  /\ UNCHANGED link

CatalogNext ==
  \/ \E sku \in Skus : AddVariant(sku)
  \/ \E raw \in RawOffers : AddOffer(raw)

CatalogSpec == CatalogInit /\ [][CatalogNext]_catalogVars

-----------------------------------------------------------------------------
(* Properties, of every answer that is accepted and has a variant for the link. *)

Ref == Reference(link)

Found == FindVariant(answer, Ref)

Mapped == LinkAccepted(link) /\ PayloadAccepted(answer) /\ Found # 0

Offers == SnapshotOffers(answer[Found])

Leader == SelectLeader(Offers)

\* The amount in thousandths, digit by digit.
Thousandths(a) ==
  LET digit(i) == IF i \in DOMAIN a.frac THEN a.frac[i] ELSE 0
  IN 1000 * a.whole + 100 * digit(1) + 10 * digit(2) + digit(3)

\* The leader is the buyable offer with the lowest amount the catalog states (its sale
\* price, if there is one), by the digits as they stand there, and of several the one
\* with the lowest code; there is none only if nothing is buyable.
LeaderIsCheapest ==
  Mapped =>
    LET buyable == {raw \in ToSet(answer[Found].offers) : raw.buyable}
        amount(raw) == Thousandths(Stated(raw))
    IN IF buyable = {} THEN Leader = NoOffer
       ELSE \E best \in buyable :
              /\ Leader.offerId = best.code
              /\ \A raw \in buyable : \/ amount(best) < amount(raw)
                                      \/ amount(best) = amount(raw) /\ best.code <= raw.code

\* The order in which the catalog lists its offers does not matter, equal prices
\* included: otherwise the leader would change without any offer changing.
LeaderIgnoresOrder ==
  Mapped => SelectLeader(Reverse(Offers)) = Leader

\* Some offer is at or below a target price exactly when the leader is, and then it is
\* the one selected.  PriceTracking knows only the leader's price (Reached there).
LeaderReachesFirst ==
  Mapped =>
    \A t \in UNION {{o.priceMinor - 1, o.priceMinor} : o \in ToSet(Offers)} :
      SelectOfferAtOrBelow(Offers, t) =
        IF Leader # NoOffer /\ Leader.priceMinor <= t THEN Leader ELSE NoOffer

\* The amount that the chat is shown for an offer, typed as its target price, is the
\* price of that offer to the fils, neither lower nor higher.
ShownPriceIsRead ==
  Mapped =>
    \A o \in ToSet(Available(Offers)) :
      o.priceMinor \in 1..MaxPrice =>
        ParseTargetPriceMinor(FormatPrice(o.priceMinor)) = o.priceMinor

\* The messages of the list name every available offer once, the leader first, and
\* none of them is longer than Telegram allows (as long as each line is not).
ListIsComplete ==
  Mapped /\ Leader # NoOffer =>
    LET messages == OfferListMessages(Offers, Leader)
        lines == FlattenSeq(messages)
        length(i) == (IF i = 1 THEN Header ELSE HeaderAgain)
                       + FoldLeft(LAMBDA n, o : n + Line(o), 0, messages[i])
    IN /\ lines[1] = Leader
       /\ Len(lines) = Len(Available(Offers))
       /\ ToSet(lines) = ToSet(Available(Offers))
       /\ \A i \in DOMAIN messages : length(i) <= MaxLength

\* The bot checks a link and stores its canonical form, which is what the monitoring
\* checks from then on: it is accepted again, for the same SKU and slug, and leads to the
\* same variant of the same answer, provided the one the link led to carries its SKU.  A
\* variant found by the offer code of the link alone is not found again, since the
\* canonical form has no offer code.
MonitoringFindsTheSame ==
  LinkAccepted(link) =>
    LET url == CanonicalUrl(Ref) IN
    /\ LinkAccepted(url)
    /\ Reference(url) = [Ref EXCEPT !.code = NoCode]
    /\ Mapped /\ Carries(answer[Found], Ref.sku) =>
         FindVariant(answer, Reference(url)) = Found
=============================================================================
