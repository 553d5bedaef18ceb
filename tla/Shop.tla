------------------------------- MODULE Shop ------------------------------
(* The retail shop of nzsummit18: the Vue page of Retail.Web/ClientApp in   *)
(* one browser, and version 1.0 of ShopController, which every client gets  *)
(* that asks for no version, with the requests of other browsers.           *)
(*                                                                          *)
(* Not here: version 2.0 of the controller, which the page never asks for,  *)
(* the modal dialog, which no template shows, the counter of the store,     *)
(* which nothing dispatches, and whether the menu is folded.                *)
EXTENDS Naturals, FiniteSets

CONSTANTS
  Get,          \* bound: the listings that browsers may ask for
  Click,        \* bound: clicks on "Buy Now!"
  Catalogue,    \* the products that each version of the table offers
  Versions,     \* bound: versions of the table of products, 1..Versions
  Rates,        \* what Failures:failureRate may be set to
  None

ASSUME ShopAssumption ==
  /\ Versions \in Nat \ {0} /\ Rates \subseteq Nat \ {0}
  /\ Catalogue \in [1..Versions -> SUBSET [id : Nat, category : Nat, price : Nat]]
  /\ IsFiniteSet(Get) /\ None \notin Get \cup (1..Versions)

VARIABLES
  (* the page *)
  route,        \* the path of the router
  instance,     \* the Shop component on the page, named by its getData; None without one
  products,     \* the version its products come from, None while it has none
  checked,      \* checkedCategory
  (* the service *)
  settings,     \* the configuration that each request reads: enableFailures, failureRate
  failCounter,
  version,      \* of the table of products
  get,          \* how far each listing is
  click,        \* each purchase: where it is, what it names and what the page knows
  (* history *)
  since,        \* the counter at the last reload between listings, or at the start
  spoiled,      \* listings made to fail since then, until one raced
  raced         \* since then a listing was counted during another, or during a reload

page == <<route, instance, products, checked>>
history == <<since, spoiled, raced>>
vars == <<page, settings, failCounter, version, get, click, history>>

Path == {"/", "/shop"}
Settings == [enableFailures : BOOLEAN, failureRate : Rates]

ShopInit ==
  /\ route = "/"
  /\ instance = None /\ products = None /\ checked = {}
  /\ settings \in Settings
  /\ failCounter = 0
  /\ version = 1
  /\ get = [g \in Get |-> [at |-> "unsent", read |-> 0, of |-> None]]
  /\ click = [k \in Click |-> [at |-> "unsent", product |-> None, shown |-> None, page |-> "none"]]
  /\ since = 0 /\ spoiled = 0 /\ raced = FALSE

-----------------------------------------------------------------------------
(* The page *)

Products == IF products = None THEN {} ELSE Catalogue[products]

productCategories == {p.category : p \in Products}

filteredProducts ==
  IF checked = {} THEN Products ELSE {p \in Products : p.category \in checked}

Send(g) == get[g].at = "unsent" /\ get' = [get EXCEPT ![g].at = "sent"]

(* created() of a new Shop component asks for the products. *)
created(g) ==
  /\ Send(g)
  /\ instance' = g /\ products' = None /\ checked' = {}

(* Mutant: the component is kept alive. *)
destroyedKept == UNCHANGED <<instance, products, checked, get>>

destroyed ==
  /\ instance' = None /\ products' = None /\ checked' = {}
  /\ UNCHANGED get

(* A link of the menu, or back and forward: the router shows another component. *)
Navigate(path) ==
  /\ route # path
  /\ route' = path
  /\ IF path = "/shop" THEN \E g \in Get : created(g) ELSE destroyed
  /\ UNCHANGED <<settings, failCounter, version, click, history>>

(* The brand link, an address typed in or a reload: the page starts anew    *)
(* and hears no more of the requests it has sent.                           *)
Load(path) ==
  /\ route' = path
  /\ IF path = "/shop" THEN \E g \in Get : created(g) ELSE destroyed
  /\ click' = [k \in Click |-> IF click[k].page = "waits" THEN [click[k] EXCEPT !.page = "gone"]
                                                        ELSE click[k]]
  /\ UNCHANGED <<settings, failCounter, version, history>>

Check(category) ==
  /\ category \in productCategories
  /\ checked' = IF category \in checked THEN checked \ {category} ELSE checked \cup {category}
  /\ UNCHANGED <<route, instance, products, settings, failCounter, version, get,
                 click, history>>

(* The product is sent as the page shows it, price and all.  The button     *)
(* stays: another click is another purchase.                                *)
sendData(k, product) ==
  /\ click[k].at = "unsent"
  /\ product \in filteredProducts
  /\ click' = [click EXCEPT ![k] = [at |-> "sent", product |-> product, shown |-> products,
                                    page |-> "waits"]]
  /\ UNCHANGED <<page, settings, failCounter, version, get, history>>

(* Mutant: whichever answer comes is shown. *)
getDataOfAny(g) ==
  /\ get[g].at = "answered"
  /\ get' = [get EXCEPT ![g].at = "received"]
  /\ products' = IF instance # None THEN get[g].of ELSE products
  /\ UNCHANGED <<route, instance, checked, settings, failCounter, version, click,
                 history>>

(* The answer, or the error, is for the component that asked; without a     *)
(* catch an error leaves it without products.                               *)
getData(g) ==
  /\ get[g].at = "answered"
  /\ get' = [get EXCEPT ![g].at = "received"]
  /\ products' = IF g = instance THEN get[g].of ELSE products
  /\ UNCHANGED <<route, instance, checked, settings, failCounter, version, click,
                 history>>

(* The answer to a purchase is kept or logged and shown nowhere. *)
Sold(k) ==
  /\ click[k].at \in {"answered", "refused"} /\ click[k].page = "waits"
  /\ click' = [click EXCEPT ![k].page = IF click[k].at = "answered" THEN "response" ELSE "error"]
  /\ UNCHANGED <<page, settings, failCounter, version, get, history>>

(* The answer is lost on its way: the listing or the purchase was done. *)
AnswerLost ==
  /\ \/ \E g \in Get : /\ get[g].at = "answered"
                       /\ get' = [get EXCEPT ![g].at = "received", ![g].of = None]
                       /\ UNCHANGED click
     \/ \E k \in Click : /\ click[k].at = "answered" /\ click[k].page = "waits"
                         /\ click' = [click EXCEPT ![k].page = "error"]
                         /\ UNCHANGED get
  /\ UNCHANGED <<page, settings, failCounter, version, history>>

-----------------------------------------------------------------------------
(* The service *)

OtherGet(g) ==
  /\ Send(g)
  /\ UNCHANGED <<page, settings, failCounter, version, click, history>>

Counting == {g \in Get : get[g].at \in {"read", "counted"}}

(* failCounter++ reads and writes in two steps, and the test reads again. *)
ReadCounter(g) ==
  /\ get[g].at = "sent"
  /\ get' = [get EXCEPT ![g].at = "read", ![g].read = failCounter]
  /\ raced' = (raced \/ Counting # {})
  /\ UNCHANGED <<page, settings, failCounter, version, click, since, spoiled>>

WriteCounter(g) ==
  /\ get[g].at = "read"
  /\ get' = [get EXCEPT ![g].at = "counted", ![g].read = 0]
  /\ failCounter' = get[g].read + 1
  /\ UNCHANGED <<page, settings, version, click, history>>

(* Mutant: the first listing of every n fails. *)
FailsFirst(n) == (n + settings.failureRate - 1) % settings.failureRate = 0

Fails(n) == n % settings.failureRate = 0

(* Mutant: a listing that is made to fail hangs. *)
GetAllProductsHangs(g) ==
  /\ get[g].at = "counted"
  /\ ~ (settings.enableFailures /\ Fails(failCounter))
  /\ get' = [get EXCEPT ![g].at = "answered", ![g].of = version]
  /\ UNCHANGED <<page, settings, failCounter, version, click, history>>

(* A query that is made to fail, or the products of this moment.  The flag, *)
(* the counter and the rate are read one after the other; what a reload in  *)
(* between could make of them is also made by one before, or by QueryFails. *)
GetAllProducts(g) ==
  LET fails == settings.enableFailures /\ Fails(failCounter)
  IN /\ get[g].at = "counted"
     /\ get' = [get EXCEPT ![g].at = "answered", ![g].of = IF fails THEN None ELSE version]
     /\ spoiled' = IF fails /\ ~ raced THEN spoiled + 1 ELSE spoiled
     /\ UNCHANGED <<page, settings, failCounter, version, click, since, raced>>

QueryFails(g) ==
  /\ get[g].at = "counted"
  /\ ~ (settings.enableFailures /\ Fails(failCounter))
  /\ get' = [get EXCEPT ![g].at = "answered"]
  /\ UNCHANGED <<page, settings, failCounter, version, click, history>>

(* The sale is inserted with the price that came with the request. *)
Buy(k) ==
  /\ click[k].at = "sent"
  /\ click' = [click EXCEPT ![k].at = "answered"]
  /\ UNCHANGED <<page, settings, failCounter, version, get, history>>

BuyFails(k) ==
  /\ click[k].at = "sent"
  /\ click' = [click EXCEPT ![k].at = "refused"]
  /\ UNCHANGED <<page, settings, failCounter, version, get, history>>

(* The file of the settings is changed and read again, at any moment.  A    *)
(* setting that is missing, or a rate of 0, has every listing throw and is  *)
(* not among the Settings.                                                  *)
Reload ==
  /\ settings' \in Settings \ {settings}
  /\ IF Counting = {} THEN since' = failCounter /\ spoiled' = 0 /\ raced' = FALSE
                      ELSE raced' = TRUE /\ UNCHANGED <<since, spoiled>>
  /\ UNCHANGED <<page, failCounter, version, get, click>>

(* Somebody changes the table of products. *)
Reprice ==
  /\ version < Versions
  /\ version' = version + 1
  /\ UNCHANGED <<page, settings, failCounter, get, click, history>>

(* The counter is static: it does not survive the process, and nor do the   *)
(* requests it was working on.                                              *)
Restart ==
  /\ failCounter' = 0
  /\ get' = [g \in Get |-> IF get[g].at \in {"sent", "read", "counted"}
                           THEN [at |-> "answered", read |-> 0, of |-> None] ELSE get[g]]
  /\ click' = [k \in Click |-> IF click[k].at = "sent" THEN [click[k] EXCEPT !.at = "refused"]
                                                      ELSE click[k]]
  /\ since' = 0 /\ spoiled' = 0 /\ raced' = FALSE
  /\ UNCHANGED <<page, settings, version>>

-----------------------------------------------------------------------------
Serve(g) == ReadCounter(g) \/ WriteCounter(g) \/ GetAllProducts(g) \/ QueryFails(g) \/ getData(g)

Next ==
  \/ \E path \in Path : Navigate(path) \/ Load(path)
  \/ \E p \in Products : Check(p.category) \/ \E k \in Click : sendData(k, p)
  \/ \E g \in Get : OtherGet(g) \/ Serve(g)
  \/ \E k \in Click : Buy(k) \/ BuyFails(k) \/ Sold(k)
  \/ AnswerLost
  \/ Reload
  \/ Reprice
  \/ Restart

(* The service works on a listing it has got, and its answer, or an error,  *)
(* reaches the browser.                                                     *)
Spec == ShopInit /\ [][Next]_vars /\ \A g \in Get : WF_vars(Serve(g))
-----------------------------------------------------------------------------
(* The types; that a Shop component is on the page exactly on its route;    *)
(* and that a purchase names a product of a version the page had.           *)
TypeOK ==
  /\ route \in Path
  /\ instance \in Get \cup {None}
  /\ route = "/shop" <=> instance # None
  /\ products \in (1..version) \cup {None}
  /\ checked \subseteq Nat
  /\ settings \in Settings
  /\ failCounter \in Nat /\ since \in Nat /\ spoiled \in Nat
  /\ version \in 1..Versions
  /\ raced \in BOOLEAN
  /\ get \in [Get -> [at : {"unsent", "sent", "read", "counted", "answered", "received"},
                     read : Nat, of : (1..version) \cup {None}]]
  /\ \A k \in Click :
       /\ click[k].at \in {"unsent", "sent", "answered", "refused"}
       /\ click[k].page \in {"none", "waits", "response", "error", "gone"}
       /\ click[k].at # "unsent" => /\ click[k].shown \in 1..version
                                   /\ click[k].product \in Catalogue[click[k].shown]

(* What the page shows was listed for this very visit of the shop, and the  *)
(* categories it filters by are among it, whichever visits were left with   *)
(* their listings under way: the filter never hides everything.             *)
VisitIsItsOwn ==
  /\ products # None =>
       instance # None /\ get[instance].at = "received" /\ get[instance].of = products
  /\ checked \subseteq productCategories

(* "fail every 'n' times" (ShopController.cs:40): while the settings stay,  *)
(* and unless two listings are counted at once, as many are made to fail as *)
(* the counter passes multiples of the rate, and none without the feature.  *)
(* The counter also counts without it, so the first listing that fails when *)
(* it is enabled is seldom the n-th.                                        *)
OnlyRacesMiscount ==
  ~ raced /\ Counting = {} =>
    spoiled = IF settings.enableFailures
              THEN failCounter \div settings.failureRate - since \div settings.failureRate
              ELSE 0

(* A visitor who stays gets the products or an error: no listing hangs,     *)
(* over restarts of the service and answers that are lost.                  *)
ShopSettles == []<>(instance = None \/ get[instance].at = "received")
=============================================================================
