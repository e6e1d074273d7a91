------------------------ MODULE MCAffiliateRewriting ------------------------
(* One list and one product of Mercado Livre, two Amazon links of which one *)
(* begins with the other, and a link of each other kind.                    *)
EXTENDS AffiliateRewriting, TLC

CONSTANTS p1, p2, id1, id2, q1, q2

MCLink == {"list", "item", "amz", "amzx", "magalu", "shopee", "site"}

MCMarketOf == [l \in MCLink |->
  CASE l \in {"list", "item"} -> "mercado_livre" [] l \in {"amz", "amzx"} -> "amazon"
    [] l = "magalu" -> "magazine_luiza" [] l = "shopee" -> "shopee" [] OTHER -> "unknown"]
MCShape == [l \in MCLink |->
  CASE l = "list" -> "list" [] l = "site" -> "other" [] OTHER -> "product"]

Part(x) == <<<<"part", x>>>>
MCPartsOf == [l \in MCLink |-> IF l = "amzx" THEN Part("amz") \o Part("x") ELSE Part(l)]
(* Short links: the one of the list, and one of Amazon. *)
MCBehind == [l \in MCLink |-> IF l \in {"list", "amzx"} THEN Part("far") \o Part(l) ELSE MCPartsOf[l]]
MCProductOf == [l \in MCLink |-> p1]

MCSlugOf == (p1 :> <<"fone", "sem">>) @@ (p2 :> <<"fone", "cabo", "300g">>)
MCBrand == {"sony"}
MCQuantity == {"300g"}
MCStop == {"oferta"}
MCReco == "veja"

Record(path, action, p, title, near) ==
  [in |-> "script", path |-> path, action |-> action, product |-> p, title |-> title, near |-> near]
Button(path, p, title, near) ==
  [in |-> "button", path |-> path, action |-> FALSE, product |-> p, title |-> title, near |-> near]

One == Button("other", p1, <<"fone", "sony">>, <<>>)
Two == Button("other", p2, <<"fone", "sony">>, <<>>)

Places(places) == [places |-> places, pdp |-> NoProduct]

(* An action behind another product; one item for the page; two products    *)
(* that only some words tell apart, in both orders; a recommendation.       *)
MCPage == {"action", "pdp", "pair", "reversed", "blocked"}
MCPageOf == [page \in MCPage |->
  CASE page = "action" -> Places(<<One, Record("selected", TRUE, p2, <<>>, <<>>)>>)
    [] page = "pdp" -> [places |-> <<Two>>, pdp |-> p1]
    [] page = "pair" -> Places(<<One, Two>>)
    [] page = "reversed" -> Places(<<Two, One>>)
    [] OTHER -> Places(<<Record("blocked", FALSE, p1, <<"fone", "sem">>, <<"veja">>)>>)]

Word(w) == [word |-> w]
Whole(l) == [link |-> l, bare |-> FALSE]
Bare(l) == [link |-> l, bare |-> TRUE]

Said(lines, items) == [lines |-> lines, items |-> items]

MCMessage == {"twice", "two", "item", "prefix", "bare"}
MCMessageOf == [m \in MCMessage |->
  CASE m = "twice" -> Said(<<<<"oferta", "fone", "sony">>>>, <<Word("fone"), Whole("list"), Whole("list")>>)
    [] m = "two" -> Said(<<<<"fone", "cabo", "300g">>, <<"veja">>>>, <<Whole("list"), Whole("magalu")>>)
    [] m = "item" -> Said(<<>>, <<Whole("item"), Whole("site")>>)
    [] m = "prefix" -> Said(<<>>, <<Whole("amz"), Word("fone"), Whole("amzx")>>)
    [] OTHER -> Said(<<<<"veja">>>>, <<Bare("magalu"), Whole("shopee")>>)]

Symmetry == Permutations({q1, q2}) \cup Permutations({id1, id2})
=============================================================================
