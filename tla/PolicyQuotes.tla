---------------------------- MODULE PolicyQuotes ----------------------------
(***************************************************************************)
(* Quotes and purchases of routers/policies.py.  A quote is priced, then   *)
(* written to one Redis key per plan; a purchase reads that key between    *)
(* its check for an active policy and its insert, and deletes it after the *)
(* commit, whichever quote it holds by then.                               *)
(***************************************************************************)
EXTENDS PolicyTerms

CONSTANTS Quotes,   \* quote ids
          Asked,    \* the plans asked for
          Askers    \* concurrent POST /policies/quote requests

ASSUME QuoteAssumption == None \notin Quotes /\ Asked \subseteq Plans

VARIABLES quotes,   \* quotes[q]: the offer of a quote once built
          gone,     \* history: quotes that left the cache
          cached,   \* cached[plan]: the quote under policy:quote:{worker}:{plan}
          asking,   \* asking[r]: the quote r has built and not yet written
          cart,     \* cart[b]: what purchase b has read
          deleting  \* plans whose key a purchase has still to delete

quoteVars == <<quotes, gone, cached, asking, cart, deleting>>

NoQuote == [plan |-> "none", premium |-> 0, cap |-> 0]
NoCart == [plan |-> "none", named |-> None, offer |-> NoQuote, fresh |-> FALSE,
           late |-> FALSE]

Offer(plan) ==
  [plan |-> plan, premium |-> WeeklyOffer(plan, profile).premium,
   cap |-> WeeklyOffer(plan, profile).cap]

QuotesInit ==
  /\ quotes = [q \in Quotes |-> NoQuote]
  /\ gone = {}
  /\ cached = [plan \in Plans |-> None]
  /\ asking = [r \in Askers |-> None]
  /\ cart = [b \in Buyers |-> NoCart]
  /\ deleting = {}

Told == {q \in Quotes : quotes[q] # NoQuote /\ \A r \in Askers : asking[r] # q}
Uncached(plan) == {cached[plan]} \ {None}

(* quote_policy: a cached quote is answered as it is, no step. *)
BuildQuote(r, plan) ==
  /\ asking[r] = None /\ cached[plan] = None
  /\ \E q \in Quotes :
       /\ quotes[q] = NoQuote
       /\ quotes' = [quotes EXCEPT ![q] = Offer(plan)]
       /\ asking' = [asking EXCEPT ![r] = q]
  /\ UNCHANGED <<vars, router, profile, terms, gone, cached, cart, deleting>>

WriteQuote(r) ==
  /\ asking[r] # None
  /\ LET plan == quotes[asking[r]].plan
     IN  /\ cached' = [cached EXCEPT ![plan] = asking[r]]
         /\ gone' = gone \cup Uncached(plan)
  /\ asking' = [asking EXCEPT ![r] = None]
  /\ UNCHANGED <<vars, router, profile, terms, quotes, cart, deleting>>

(* Nobody has seen the quote: its id counts as unused again. *)
QuoteFails(r) ==
  /\ asking[r] # None
  /\ quotes' = [quotes EXCEPT ![asking[r]] = NoQuote]
  /\ asking' = [asking EXCEPT ![r] = None]
  /\ UNCHANGED <<vars, router, profile, terms, gone, cached, cart, deleting>>

(* Ten minutes are over. *)
QuoteExpires(plan) ==
  /\ cached[plan] # None
  /\ cached' = [cached EXCEPT ![plan] = None]
  /\ gone' = gone \cup Uncached(plan)
  /\ UNCHANGED <<vars, router, profile, terms, quotes, asking, cart, deleting>>

-----------------------------------------------------------------------------
(* Purchase. *)

StartPurchase(b) ==
  /\ BeginPurchase(b)
  /\ UNCHANGED <<router, profile, terms, quoteVars>>

(* Faulty variant: any cached quote of the plan will do. *)
ReadAnyQuote(b, plan, named) ==
  /\ buying[b] /\ cart[b] = NoCart
  /\ named \in Told \cup {None}
  /\ cart' = [cart EXCEPT ![b] =
                [plan |-> plan, named |-> named,
                 offer |-> IF cached[plan] = None THEN Offer(plan) ELSE quotes[cached[plan]],
                 fresh |-> cached[plan] = None, late |-> named \in gone]]
  /\ UNCHANGED <<vars, router, profile, terms, quotes, gone, cached, asking, deleting>>

(* A named quote that is not the cached one is refused (AbandonQuoted), but *)
(* with nothing cached it is forgotten and the plan priced afresh.          *)
ReadQuote(b, plan, named) ==
  /\ buying[b] /\ cart[b] = NoCart
  /\ named \in Told \cup {None}
  /\ named # None /\ cached[plan] # None => named = cached[plan]
  /\ cart' = [cart EXCEPT ![b] =
                [plan |-> plan, named |-> named,
                 offer |-> IF cached[plan] = None THEN Offer(plan) ELSE quotes[cached[plan]],
                 fresh |-> cached[plan] = None, late |-> named \in gone]]
  /\ UNCHANGED <<vars, router, profile, terms, quotes, gone, cached, asking, deleting>>

BuyQuoted(b) ==
  /\ buying[b] /\ cart[b] # NoCart
  /\ Purchase(b)
  /\ \E p \in Policies :
       /\ policy'[p] # policy[p]
       /\ terms' = [terms EXCEPT ![p] = [cart[b].offer EXCEPT !.cap = Least(@, CapMax[cart[b].plan])]]
  /\ cart' = [cart EXCEPT ![b] = NoCart]
  /\ deleting' = deleting \cup {cart[b].plan}
  /\ UNCHANGED <<router, profile, quotes, gone, cached, asking>>

DeleteQuote(plan) ==
  /\ plan \in deleting
  /\ cached' = [cached EXCEPT ![plan] = None]
  /\ gone' = gone \cup Uncached(plan)
  /\ deleting' = deleting \ {plan}
  /\ UNCHANGED <<vars, router, profile, terms, quotes, asking, cart>>

(* The policy is committed and the key stays: the replica or Redis failed. *)
DeletionFails(plan) ==
  /\ plan \in deleting
  /\ deleting' = deleting \ {plan}
  /\ UNCHANGED <<vars, router, profile, terms, quotes, gone, cached, asking, cart>>

AbandonQuoted(b) ==
  /\ AbandonPurchase(b)
  /\ cart' = [cart EXCEPT ![b] = NoCart]
  /\ UNCHANGED <<router, profile, terms, quotes, gone, cached, asking, deleting>>

(* Renewal and cancellation leave the terms alone. *)
HoldOn(h) ==
  /\ \/ \E op \in {"renew", "cancel"}, p \in Policies : Read(h, op, p)
     \/ Renew(h) \/ Cancel(h) \/ Forget(h)
  /\ UNCHANGED <<router, profile, terms, quoteVars>>

QuotesNext ==
  \/ \E r \in Askers : WriteQuote(r) \/ QuoteFails(r) \/ \E plan \in Asked : BuildQuote(r, plan)
  \/ \E plan \in Asked : QuoteExpires(plan) \/ DeleteQuote(plan) \/ DeletionFails(plan)
  \/ \E b \in Buyers : \/ StartPurchase(b) \/ BuyQuoted(b) \/ AbandonQuoted(b)
                       \/ \E plan \in Asked, named \in Quotes \cup {None} : ReadQuote(b, plan, named)
  \/ \E h \in Holders : HoldOn(h)

-----------------------------------------------------------------------------
(* Properties. *)

QuotesTypeOK ==
  /\ quotes \in [Quotes -> [plan : Plans \cup {"none"}, premium : Nat, cap : Nat]]
  /\ gone \subseteq Quotes /\ deleting \subseteq Plans
  /\ cached \in [Plans -> Quotes \cup {None}]
  /\ asking \in [Askers -> Quotes \cup {None}]
  /\ cart \in [Buyers -> [plan : Plans \cup {"none"}, named : Quotes \cup {None},
                          offer : [plan : Plans \cup {"none"}, premium : Nat, cap : Nat],
                          fresh : BOOLEAN, late : BOOLEAN]]

(* A policy bought on a named quote has that quote's premium, whatever the *)
(* worker's data or other requests did since it was given; only a quote    *)
(* that had left the cache when the purchase looked (expired, deleted by   *)
(* another purchase or overwritten by a second quote request) is replaced, *)
(* silently, by a fresh price, never by the price of another quote.  Named *)
(* for a plan it was not given for, a quote binds nobody.                  *)
QuoteHonoured ==
  [][\A b \in Buyers, p \in Policies :
       LET c == cart[b]
       IN  /\ buying[b] /\ ~buying'[b] /\ terms'[p] # terms[p]
           /\ c.named # None /\ quotes[c.named].plan = c.plan
           => \/ terms'[p].premium = quotes[c.named].premium
              \/ c.late /\ c.fresh]_<<buying, terms>>
=============================================================================
