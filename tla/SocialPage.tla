------------------------------ MODULE SocialPage ------------------------------
(***************************************************************************)
(* MercadoLivreAffiliateProvider: which product of a social page (an       *)
(* affiliate's list) a link is taken to mean. The page names product URLs  *)
(* in JSON records of its scripts and in its buttons; the provider takes   *)
(* the product of a "ver produto" action, else the item of pdp_filters,    *)
(* else the one product whose words fit the message clearly best.          *)
(*                                                                         *)
(* Abstractions. A page is the sequence of the places that name a URL, in  *)
(* document order, with its pdp_filters item. A text is a sequence of      *)
(* words, at least three letters each. URLs that are no product's are left *)
(* out with the parsing of HTML, JSON and escapes.                         *)
(***************************************************************************)
EXTENDS Integers, Sequences, SequencesExt, FiniteSets, FiniteSetsExt

CONSTANTS
  Product, NoProduct,
  SlugOf,          \* the words of a product's URL
  Brand,           \* words that look like a brand
  Quantity,        \* words like 300g
  Stop,            \* words that say nothing about a product
  Reco             \* a word that marks a recommendation

(* `action`: the record is a show-product action; `path`: what the keys on  *)
(* the way to it are; `near`: the words around it in the raw page.          *)
Path == {"primary", "selected", "item", "main", "other", "blocked"}

IsPlace(o) ==
  /\ o.in \in {"script", "button"} /\ o.path \in Path
  /\ o.action \in BOOLEAN /\ o.product \in Product

IsPage(page) ==
  /\ \A i \in DOMAIN page.places : IsPlace(page.places[i])
  /\ page.pdp \in Product \cup {NoProduct}

(* readProductPathPriority; a show-product action comes before all.         *)
PathPriority ==
  [p \in Path |-> CASE p = "primary" -> 100 [] p = "selected" -> 90
                    [] p = "item" -> 80 [] p = "main" -> 70 [] OTHER -> 0]
ShowPriority == 10000
Priorities == <<ShowPriority, 100, 90, 80, 70, 0>>

Candidate(o, priority, blocked, title, near) ==
  [product |-> o.product, show |-> priority = ShowPriority, blocked |-> blocked,
   priority |-> priority, title |-> title, near |-> near]

(* A record in a script is found as what it is, whatever contains it; an    *)
(* action in it is a candidate of its own that no path blocks.              *)
DeepFindProductUrls(o) ==
  IF o.in # "script" THEN <<>> ELSE
  (IF o.action THEN <<Candidate(o, ShowPriority, FALSE, o.title, <<>>)>> ELSE <<>>)
  \o <<Candidate(o, PathPriority[o.path], o.path = "blocked", o.title, <<>>)>>

(* The patterns over the raw page find its URL again, without a path.       *)
RawAction(o) ==
  IF o.in = "script" /\ o.path = "primary"
  THEN <<Candidate(o, 100, FALSE, <<>>, o.near)>> ELSE <<>>
RawField(o) ==
  IF o.in = "script" THEN <<Candidate(o, 0, FALSE, <<>>, o.near)>> ELSE <<>>

(* A button that says so, or the link around it.                            *)
CallToAction(o) ==
  IF o.in = "button"
  THEN <<Candidate(o, 100, o.path = "blocked", o.title, o.near)>> ELSE <<>>

CandidatesOf(page) ==
  LET all(Find(_)) == FlattenSeq([i \in DOMAIN page.places |-> Find(page.places[i])])
  IN  all(DeepFindProductUrls) \o all(RawAction) \o all(RawField) \o all(CallToAction)

(* Unblocked first, then by priority, equals in document order. A second    *)
(* candidate of the same URL and path is never looked at.                   *)
SortedCandidates(page) ==
  LET with(b, p) == SelectSeq(CandidatesOf(page), LAMBDA c : c.blocked = b /\ c.priority = p)
      tier(b) == FlattenSeq([i \in DOMAIN Priorities |-> with(b, Priorities[i])])
  IN  tier(FALSE) \o tier(TRUE)

----------------------------------------------------------------------------
(* The words of the offer: the line of the message with most words, where a *)
(* quantity counts as five more, each word once.                            *)
ExtractOfferKeywords(lines) ==
  LET weight(i) == Len(lines[i]) + IF ToSet(lines[i]) \cap Quantity # {} THEN 5 ELSE 0
      best == CHOOSE i \in DOMAIN lines : \A j \in DOMAIN lines :
                weight(j) < weight(i) \/ (weight(j) = weight(i) /\ i <= j)
      once(seen, w) == IF w \in Stop \/ Contains(seen, w) THEN seen ELSE Append(seen, w)
  IN  IF lines = <<>> THEN <<>> ELSE FoldLeft(once, <<>>, lines[best])

Matched(c, offer) == ToSet(offer) \cap ToSet(c.title \o c.near \o SlugOf[c.product])

HasConsecutiveKeywordMatch(offer, corpus) ==
  \E i \in 1 .. Len(offer) - 2, j \in 1 .. Len(corpus) - 2 :
    SubSeq(offer, i, i + 2) = SubSeq(corpus, j, j + 2)

(* scoreCandidateForOffer *)
Score(c, offer) ==
  LET points(holds, n) == IF holds THEN n ELSE 0
  IN  15 * Cardinality(Matched(c, offer))
      + points(Matched(c, offer) \cap Brand # {}, 30)
      + points(Matched(c, offer) \cap Quantity # {}, 30)
      + points(HasConsecutiveKeywordMatch(offer, c.title \o c.near \o SlugOf[c.product]), 20)
      - points(Reco \in ToSet(c.title \o c.near), 50)
      - points(Reco \in ToSet(c.near), 100)

(* candidatesByUrl: one candidate stands for a product.                     *)
StandsFor(sorted, p) ==
  LET better(cur, c) == \/ cur = <<>>
                        \/ cur[1].title = <<>> /\ c.title # <<>>
                        \/ c.priority > cur[1].priority
      next(cur, c) == IF c.product = p /\ ~c.blocked /\ better(cur, c) THEN <<c>> ELSE cur
  IN  FoldLeft(next, <<>>, sorted)

(* Wrong: the best wins without a margin. *)
ClearMargin_None == 0

ClearMargin == 15

(* selectProductCandidateByMessage: the first of the best by score, with    *)
(* two words, 30 points and a margin over the next.                         *)
SelectByMessage(page, lines) ==
  LET offer == ExtractOfferKeywords(lines)
      sorted == SortedCandidates(page)
      named == {p \in Product : StandsFor(sorted, p) # <<>>}
      score == [p \in named |-> Score(StandsFor(sorted, p)[1], offer)]
      first(p) == CHOOSE i \in DOMAIN sorted :
                    sorted[i].product = p /\ \A j \in 1 .. i - 1 : sorted[j].product # p
      top == CHOOSE p \in named : \A q \in named :
               score[q] < score[p] \/ (score[q] = score[p] /\ first(p) <= first(q))
  IN  IF /\ lines # <<>> /\ named # {}
         /\ Cardinality(Matched(StandsFor(sorted, top)[1], offer)) >= 2
         /\ score[top] >= 30
         /\ \A q \in named \ {top} : score[top] - score[q] >= ClearMargin
      THEN top ELSE NoProduct

ShowProductActions(page) == SelectSeq(SortedCandidates(page), LAMBDA c : c.show)

(* analyzeSocialPage *)
Chosen(page, lines) ==
  LET shown == ShowProductActions(page)
      choice(p, by) == [product |-> p, by |-> by]
  IN  IF shown # <<>> THEN choice(shown[1].product, "show_product_action")
      ELSE IF page.pdp # NoProduct THEN choice(page.pdp, "pdp_filters_item_id")
      ELSE choice(SelectByMessage(page, lines), "candidate_fallback")
=============================================================================
