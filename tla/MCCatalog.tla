----------------------------- MODULE MCCatalog -----------------------------
(* TLC instance of Catalog. *)
EXTENDS Catalog

MCSkus == {"n1", "n2"}

\* Every word below but "uae-en", whose hyphen no SKU has.
MCWords == MCSkus \cup {"item", "p"}

\* Every path of up to four segments, behind right and wrong schemes and hosts.
MCPaths ==
  UNION {[1..n -> {Lower("uae-en"), Lower("item"), Lower("n1"), Upper("n1"), Upper("p")}] :
         n \in 0..4}

MCLinks ==
  [https : BOOLEAN, host : {"noon.com", "www.noon.com", "noon.example"},
   path : MCPaths, code : {0, 1}]

MCAnswered ==
  [https : {TRUE}, host : {"noon.com"},
   path : {<<Lower("uae-en"), Lower("item"), Lower("n1"), Upper("p")>>}, code : {0, 1}]

Amount(w, f) == [whole |-> w, frac |-> f]

MCNoAmount == Amount(0, <<0, 0, 0, 0>>)

Price(p) == [price |-> p, sale |-> MCNoAmount]
Sale(p, s) == [price |-> p, sale |-> s]

\* 1.05, 1.5, and 1.5 on sale for 1.
MCPrices ==
  {Price(Amount(1, <<0, 5>>)), Price(Amount(1, <<5>>)),
   Sale(Amount(1, <<5>>), Amount(1, <<>>))}

\* Every price for every code, buyable or not; the offers that name the link's SKU; and
\* those that cannot be read: no code, too many digits, a price too large.
MCRawOffers ==
  [code : {1, 2, 3}, config : {""}, cost : MCPrices, buyable : BOOLEAN]
  \cup [code : {1, 2, 3}, config : {"n1"}, cost : {Price(Amount(1, <<5>>))},
        buyable : {TRUE}]
  \cup [code : {0}, config : {""}, cost : {Price(Amount(1, <<5>>))}, buyable : {TRUE}]
  \cup [code : {1}, config : {""}, buyable : {TRUE},
        cost : {Price(Amount(1, <<9, 9, 9>>)), Sale(Amount(9, <<>>), Amount(1, <<>>))}]
=============================================================================
