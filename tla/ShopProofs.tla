------------------------------ MODULE ShopProofs -----------------------------
(* Proofs about the retail shop, for any listings, purchases, catalogues    *)
(* and settings: the types, that a visit shows only its own listing, and    *)
(* that without a race the counter fails exactly its share.                 *)
EXTENDS Shop, Integers, TLAPS

Listing ==
  [at : {"unsent", "sent", "read", "counted", "answered", "received"},
   read : Nat, of : (1..version) \cup {None}]

Sellable == UNION {Catalogue[v] : v \in 1..Versions}

Purchase ==
  [at : {"unsent", "sent", "answered", "refused"}, product : Sellable \cup {None},
   shown : (1..version) \cup {None}, page : {"none", "waits", "response", "error", "gone"}]

(* Besides the types: purchases are records. *)
TypeInv == TypeOK /\ click \in [Click -> Purchase]

(* The parts of TypeInv under names. *)
PageOK ==
  /\ route \in Path
  /\ instance \in Get \cup {None}
  /\ route = "/shop" <=> instance # None
  /\ products \in (1..version) \cup {None}
  /\ checked \subseteq Nat

ServiceOK ==
  /\ settings \in Settings /\ raced \in BOOLEAN
  /\ failCounter \in Nat /\ since \in Nat /\ spoiled \in Nat
  /\ version \in 1..Versions

GetsOK == get \in [Get -> Listing]

ClicksOK ==
  /\ click \in [Click -> Purchase]
  /\ \A k \in Click :
       click[k].at # "unsent" => /\ click[k].shown \in 1..version
                                 /\ click[k].product \in Catalogue[click[k].shown]

(* What the settings have failed when the counter has come to n.            *)
Due(n) == IF settings.enableFailures
          THEN n \div settings.failureRate - since \div settings.failureRate
          ELSE 0

(* While no two listings raced, at most one is being counted: it has read   *)
(* the counter as it is, or has raised it and not been judged yet.          *)
CountInv ==
  ~ raced =>
    /\ \A g, h \in Counting : g = h
    /\ Counting = {} => spoiled = Due(failCounter)
    /\ \A g \in Get :
         get[g].at = "read" => get[g].read = failCounter /\ spoiled = Due(failCounter)
    /\ \A g \in Get :
         get[g].at = "counted" => failCounter # 0 /\ spoiled = Due(failCounter - 1)

IInv == TypeInv /\ VisitIsItsOwn /\ CountInv

-----------------------------------------------------------------------------
(* The quotient grows with every multiple that is reached.                  *)
LEMMA Multiples ==
  ASSUME NEW n \in Nat \ {0}, NEW R \in Nat \ {0}
  PROVE  n \div R = IF n % R = 0 THEN (n - 1) \div R + 1 ELSE (n - 1) \div R
OBVIOUS

(* Nothing is due for what is counted before the settings were read.        *)
LEMMA NoMultiples ==
  ASSUME NEW n \in Nat, NEW R \in Nat \ {0}
  PROVE  n \div R - n \div R = 0
<1>1. n \div R \in Int
  OBVIOUS
<1> QED
  BY <1>1

(* What is due grows with every listing that fails.                         *)
LEMMA DueGrows ==
  ASSUME ServiceOK, failCounter # 0
  PROVE  Due(failCounter) = IF settings.enableFailures /\ Fails(failCounter)
                            THEN Due(failCounter - 1) + 1 ELSE Due(failCounter - 1)
<1>1. PICK R : R = settings.failureRate
  OBVIOUS
<1>2. R \in Nat \ {0} /\ failCounter \in Nat \ {0} /\ since \in Nat
  BY <1>1, ShopAssumption DEF ServiceOK, Settings
<1>3. failCounter \div R = IF failCounter % R = 0 THEN (failCounter - 1) \div R + 1
                                                  ELSE (failCounter - 1) \div R
  BY <1>2, Multiples
<1>4. (failCounter - 1) \div R \in Int /\ since \div R \in Int
  BY <1>2
<1> QED
  BY <1>1, <1>3, <1>4 DEF Due, Fails

(* A page without products has nothing to filter.                           *)
LEMMA NoCategories ==
  ASSUME products = None
  PROVE  productCategories = {}
BY DEF productCategories, Products

(* The types are these four parts.                                          *)
LEMMA TypeParts == TypeInv <=> PageOK /\ ServiceOK /\ GetsOK /\ ClicksOK
<1>1. click \in [Click -> Purchase] =>
        \A k \in Click : /\ click[k].at \in {"unsent", "sent", "answered", "refused"}
                         /\ click[k].page \in {"none", "waits", "response", "error", "gone"}
  BY DEF Purchase
<1> QED
  BY <1>1 DEF TypeInv, TypeOK, PageOK, ServiceOK, GetsOK, ClicksOK, Listing

(* The same of the next state.                                              *)
LEMMA TypePartsNext == TypeInv' <=> PageOK' /\ ServiceOK' /\ GetsOK' /\ ClicksOK'
<1>1. click' \in [Click -> Purchase'] =>
        \A k \in Click : /\ click'[k].at \in {"unsent", "sent", "answered", "refused"}
                         /\ click'[k].page \in {"none", "waits", "response", "error", "gone"}
  BY DEF Purchase
<1> QED
  BY <1>1 DEF TypeInv, TypeOK, PageOK, ServiceOK, GetsOK, ClicksOK, Listing

(* Before anything is asked for.                                            *)
LEMMA InitHolds == ShopInit => IInv
<1> SUFFICES ASSUME ShopInit PROVE IInv
  OBVIOUS
<1>1. get \in [Get -> Listing]
  BY DEF ShopInit, Listing
<1>2. click \in [Click -> Purchase]
  BY DEF ShopInit, Purchase
<1>3. PageOK
  BY DEF ShopInit, PageOK, Path
<1>3a. ServiceOK
  <2>1. settings \in Settings /\ raced \in BOOLEAN
    BY DEF ShopInit
  <2>2. failCounter \in Nat /\ since \in Nat /\ spoiled \in Nat /\ version \in 1..Versions
    BY ShopAssumption DEF ShopInit
  <2> QED
    BY <2>1, <2>2 DEF ServiceOK
<1>3b. ClicksOK
  BY <1>2 DEF ShopInit, ClicksOK
<1>4. VisitIsItsOwn
  BY DEF ShopInit, VisitIsItsOwn
<1>5. 0 = Due(0)
  <2>1. PICK R : R = settings.failureRate
    OBVIOUS
  <2>2. R \in Nat \ {0} /\ since = 0
    BY <2>1, ShopAssumption DEF ShopInit, Settings
  <2>3. 0 \div R - 0 \div R = 0
    BY <2>2, NoMultiples
  <2> QED
    BY <2>1, <2>2, <2>3 DEF Due
<1>6. CountInv
  BY <1>5 DEF ShopInit, CountInv, Counting
<1> QED
  BY <1>1, <1>3, <1>3a, <1>3b, <1>4, <1>6, TypeParts DEF IInv, GetsOK

-----------------------------------------------------------------------------
(* A visit is its own in steps that leave the page and the listings that    *)
(* were received alone.                                                     *)
LEMMA VisitSame ==
  ASSUME TypeOK, VisitIsItsOwn, UNCHANGED <<instance, products, checked>>,
         \A g \in Get : get[g].at = "received" => get'[g] = get[g]
  PROVE  VisitIsItsOwn'
<1>1. productCategories' = productCategories
  BY DEF productCategories, Products
<1>2. products # None => instance \in Get
  BY DEF VisitIsItsOwn, TypeOK
<1> QED
  BY <1>1, <1>2 DEF VisitIsItsOwn

(* So it is when the component is replaced or destroyed.                    *)
LEMMA VisitFresh ==
  ASSUME products' = None, checked' = {}
  PROVE  VisitIsItsOwn'
BY DEF VisitIsItsOwn

(* The count stays right in steps that concern no listing being counted.    *)
LEMMA CountSame ==
  ASSUME CountInv, UNCHANGED <<settings, failCounter, since, spoiled, raced>>,
         \A g \in Get : {get[g].at, get'[g].at} \cap {"read", "counted"} # {} => get'[g] = get[g]
  PROVE  CountInv'
<1>1. Counting' = Counting
  BY DEF Counting
<1> QED
  BY <1>1 DEF CountInv, Due

(* One listing goes on: what is true of it, and that the others stay.       *)
LEMMA GetStep ==
  ASSUME GetsOK, NEW g \in Get, NEW next, get' = [get EXCEPT ![g] = next]
  PROVE  get'[g] = next /\ \A h \in Get \ {g} : get'[h] = get[h]
BY DEF GetsOK

(* Listings keep their type while the table of products stays as it is.     *)
LEMMA GetsKept ==
  ASSUME GetsOK, NEW g \in Get, NEW next \in Listing, get' = [get EXCEPT ![g] = next],
         version' = version
  PROVE  GetsOK'
<1>1. Listing' = Listing
  BY DEF Listing
<1> QED
  BY <1>1 DEF GetsOK

(* Purchases too.                                                           *)
LEMMA ClicksKept ==
  ASSUME ClicksOK, NEW k \in Click, NEW next \in Purchase, click' = [click EXCEPT ![k] = next],
         version' = version,
         next.at # "unsent" => next.shown \in 1..version /\ next.product \in Catalogue[next.shown]
  PROVE  ClicksOK'
<1>1. Purchase' = Purchase
  BY DEF Purchase
<1>2. click' \in [Click -> Purchase]
  BY DEF ClicksOK
<1>3. click'[k] = next /\ \A j \in Click \ {k} : click'[j] = click[j]
  BY DEF ClicksOK
<1> QED
  BY <1>1, <1>2, <1>3 DEF ClicksOK

(* And purchases nobody touches.                                            *)
LEMMA ClicksSame ==
  ASSUME ClicksOK, UNCHANGED <<click, version>>
  PROVE  ClicksOK'
BY DEF ClicksOK, Purchase

(* So do listings.                                                          *)
LEMMA GetsSame ==
  ASSUME GetsOK, UNCHANGED <<get, version>>
  PROVE  GetsOK'
BY DEF GetsOK, Listing

-----------------------------------------------------------------------------
(* Sending a listing.                                                       *)
LEMMA SendKeeps ==
  ASSUME GetsOK, NEW g \in Get, Send(g), version' = version
  PROVE  /\ GetsOK'
         /\ \A h \in Get : \/ get'[h] = get[h]
                           \/ get[h].at = "unsent" /\ get'[h].at = "sent"
<1>1. PICK before : before = get[g]
  OBVIOUS
<1>2. before \in Listing
  BY <1>1 DEF GetsOK
<1>3. PICK next : next = [before EXCEPT !.at = "sent"]
  OBVIOUS
<1>4. next \in Listing /\ next.at = "sent"
  BY <1>2, <1>3 DEF Listing
<1>5. get' = [get EXCEPT ![g] = next] /\ before.at = "unsent"
  BY <1>1, <1>3 DEF Send, GetsOK
<1> QED
  BY <1>1, <1>4, <1>5, GetStep, GetsKept

(* Another component, or none, on the page: at most a listing is sent.      *)
LEMMA ArrivalKeeps ==
  ASSUME IInv, NEW path \in Path, route' = path, version' = version,
         IF path = "/shop" THEN \E g \in Get : created(g) ELSE destroyed
  PROVE  /\ PageOK' /\ GetsOK' /\ VisitIsItsOwn'
         /\ \A h \in Get : \/ get'[h] = get[h]
                           \/ get[h].at = "unsent" /\ get'[h].at = "sent"
<1>1. PageOK /\ GetsOK
  BY TypeParts DEF IInv
<1>2. products' = None /\ checked' = {} /\ VisitIsItsOwn'
  BY VisitFresh DEF created, destroyed
<1>3. CASE path = "/shop"
  <2>1. PICK g \in Get : created(g)
    BY <1>3
  <2>2. g # None
    BY ShopAssumption
  <2>3. PageOK'
    BY <1>2, <1>3, <2>1, <2>2 DEF PageOK, created
  <2> QED
    BY <1>1, <1>2, <2>1, <2>3, SendKeeps DEF created
<1>4. CASE path # "/shop"
  <2>1. PageOK'
    BY <1>2, <1>4 DEF PageOK, destroyed
  <2> QED
    BY <1>1, <1>2, <1>4, <2>1, GetsSame DEF destroyed
<1> QED
  BY <1>3, <1>4

(* The counter and what it counts, where no more happens than that listings *)
(* are sent or their answers arrive.                                        *)
LEMMA CountApart ==
  ASSUME CountInv, UNCHANGED <<settings, failCounter, since, spoiled, raced>>,
         \A h \in Get : \/ get'[h] = get[h]
                        \/ get[h].at = "unsent" /\ get'[h].at = "sent"
                        \/ get[h].at = "answered" /\ get'[h].at = "received"
  PROVE  CountInv'
<1>1. \A h \in Get : {get[h].at, get'[h].at} \cap {"read", "counted"} # {} => get'[h] = get[h]
  OBVIOUS
<1> QED
  BY <1>1, CountSame

(* The menu and the address line.                                           *)
LEMMA NavigateKeeps ==
  ASSUME IInv, NEW path \in Path, Navigate(path) \/ Load(path)
  PROVE  IInv'
<1>1. PageOK /\ ServiceOK /\ GetsOK /\ ClicksOK
  BY TypeParts DEF IInv
<1>2. /\ route' = path
      /\ IF path = "/shop" THEN \E g \in Get : created(g) ELSE destroyed
      /\ UNCHANGED <<settings, failCounter, version, since, spoiled, raced>>
  BY DEF Navigate, Load, history
<1>4. /\ PageOK' /\ GetsOK' /\ VisitIsItsOwn'
      /\ \A h \in Get : \/ get'[h] = get[h]
                        \/ get[h].at = "unsent" /\ get'[h].at = "sent"
  BY <1>2, ArrivalKeeps
<1>5. ServiceOK'
  BY <1>1, <1>2 DEF ServiceOK
<1>6. CountInv'
  BY <1>2, <1>4, CountApart DEF IInv
<1>7. ClicksOK'
  <2>1. CASE Navigate(path)
    BY <1>1, <2>1, ClicksSame DEF Navigate
  <2>2. CASE Load(path)
    <3>1. \A k \in Click : click'[k] = IF click[k].page = "waits"
                                       THEN [click[k] EXCEPT !.page = "gone"] ELSE click[k]
      BY <2>2 DEF Load
    <3>2. \A p \in Purchase : /\ [p EXCEPT !.page = "gone"] \in Purchase
                              /\ [p EXCEPT !.page = "gone"].at = p.at
                              /\ [p EXCEPT !.page = "gone"].shown = p.shown
                              /\ [p EXCEPT !.page = "gone"].product = p.product
      BY DEF Purchase
    <3>3. \A k \in Click : /\ click'[k] \in Purchase
                           /\ click'[k].at = click[k].at
                           /\ click'[k].shown = click[k].shown
                           /\ click'[k].product = click[k].product
      BY <1>1, <3>1, <3>2 DEF ClicksOK
    <3>4. click' \in [Click -> Purchase]
      BY <2>2, <3>3 DEF Load
    <3>5. Purchase' = Purchase
      BY <1>2 DEF Purchase
    <3> QED
      BY <1>1, <1>2, <3>3, <3>4, <3>5 DEF ClicksOK
  <2> QED
    BY <2>1, <2>2
<1> QED
  BY <1>4, <1>5, <1>6, <1>7, TypePartsNext DEF IInv

-----------------------------------------------------------------------------
(* The filter: nothing of the service changes.                              *)
LEMMA PageKeeps ==
  ASSUME IInv, \E category : Check(category)
  PROVE  IInv'
<1>1. PageOK /\ ServiceOK /\ GetsOK /\ ClicksOK
  BY TypeParts DEF IInv
<1>2. UNCHANGED <<instance, products, settings, failCounter, version, get, click, since, spoiled,
                raced>>
  BY DEF Check, history
<1>3. productCategories \subseteq Nat
  <2>1. Products \subseteq [id : Nat, category : Nat, price : Nat]
    BY <1>1, ShopAssumption DEF Products, PageOK, ServiceOK
  <2> QED
    BY <2>1 DEF productCategories
<1>4. PageOK'
  BY <1>1, <1>3 DEF PageOK, Check
<1>5. ServiceOK' /\ GetsOK' /\ ClicksOK'
  BY <1>1, <1>2, GetsSame, ClicksSame DEF ServiceOK
<1>6. VisitIsItsOwn'
  <2>1. productCategories' = productCategories
    BY <1>2 DEF productCategories, Products
  <2>2. checked' \subseteq productCategories
    BY DEF IInv, VisitIsItsOwn, Check
  <2> QED
    BY <1>2, <2>1, <2>2 DEF IInv, VisitIsItsOwn
<1>7. CountInv'
  BY <1>2, CountSame DEF IInv
<1> QED
  BY <1>4, <1>5, <1>6, <1>7, TypePartsNext DEF IInv

(* Purchases: nothing else changes.                                         *)
LEMMA ClickKeeps ==
  ASSUME IInv, ClicksOK', UNCHANGED <<page, settings, failCounter, version, get, history>>
  PROVE  IInv'
<1>1. PageOK /\ ServiceOK /\ GetsOK
  BY TypeParts DEF IInv
<1>2. PageOK' /\ ServiceOK' /\ GetsOK'
  BY <1>1, GetsSame DEF PageOK, ServiceOK, page, history
<1>3. VisitIsItsOwn'
  BY VisitSame DEF IInv, TypeInv, page
<1>4. CountInv'
  BY CountSame DEF IInv, history
<1> QED
  BY <1>2, <1>3, <1>4, TypePartsNext DEF IInv

(* A purchase names a product of the version the page shows.                *)
LEMMA SendDataKeeps ==
  ASSUME IInv, NEW k \in Click, NEW product, sendData(k, product)
  PROVE  IInv'
<1>1. PageOK /\ ServiceOK /\ ClicksOK
  BY TypeParts DEF IInv
<1>2. product \in Products
  BY DEF sendData, filteredProducts
<1>3. products # None /\ product \in Catalogue[products]
  BY <1>2 DEF Products
<1>4. products \in 1..version /\ products \in 1..Versions
  <2>1. products \in 1..version /\ version \in 1..Versions /\ Versions \in Nat
    BY <1>1, <1>3, ShopAssumption DEF PageOK, ServiceOK
  <2> QED
    BY <2>1
<1>5. product \in Sellable
  BY <1>3, <1>4 DEF Sellable
<1>6. PICK next : next = [at |-> "sent", product |-> product, shown |-> products, page |-> "waits"]
  OBVIOUS
<1>7. next \in Purchase /\ next.shown = products /\ next.product = product
  BY <1>4, <1>5, <1>6 DEF Purchase
<1>8. /\ click' = [click EXCEPT ![k] = next]
      /\ UNCHANGED <<page, settings, failCounter, version, get, history>>
  BY <1>6 DEF sendData
<1>9. ClicksOK'
  BY <1>1, <1>3, <1>4, <1>7, <1>8, ClicksKept
<1> QED
  BY <1>8, <1>9, ClickKeeps

(* The purchase goes on, or its answer does.                                *)
LEMMA SoldKeeps ==
  ASSUME IInv, NEW k \in Click, NEW next,
         click' = [click EXCEPT ![k] = next], click[k].at # "unsent",
         \/ \E at \in {"answered", "refused"} : next = [click[k] EXCEPT !.at = at]
         \/ \E outcome \in {"response", "error"} : next = [click[k] EXCEPT !.page = outcome],
         UNCHANGED <<page, settings, failCounter, version, get, history>>
  PROVE  IInv'
<1>1. ClicksOK
  BY TypeParts DEF IInv
<1>2. PICK before : before = click[k]
  OBVIOUS
<1>3. /\ before \in Purchase
      /\ before.shown \in 1..version /\ before.product \in Catalogue[before.shown]
  BY <1>1, <1>2 DEF ClicksOK
<1>4. /\ next \in Purchase
      /\ next.shown = before.shown /\ next.product = before.product
  <2>1. CASE \E at \in {"answered", "refused"} : next = [before EXCEPT !.at = at]
    BY <1>3, <2>1 DEF Purchase
  <2>2. CASE \E outcome \in {"response", "error"} : next = [before EXCEPT !.page = outcome]
    BY <1>3, <2>2 DEF Purchase
  <2> QED
    BY <1>2, <2>1, <2>2
<1>5. ClicksOK'
  BY <1>1, <1>3, <1>4, ClicksKept
<1> QED
  BY <1>5, ClickKeeps

(* The answers to purchases.                                                *)
LEMMA BuyKeeps ==
  ASSUME IInv, NEW k \in Click, Buy(k) \/ BuyFails(k) \/ Sold(k)
  PROVE  IInv'
<1>1. CASE Buy(k)
  <2>1. PICK next : next = [click[k] EXCEPT !.at = "answered"]
    OBVIOUS
  <2>2. /\ click' = [click EXCEPT ![k] = next] /\ click[k].at # "unsent"
        /\ UNCHANGED <<page, settings, failCounter, version, get, history>>
    BY <1>1, <2>1, TypeParts DEF Buy, IInv, ClicksOK
  <2> QED
    BY <2>1, <2>2, SoldKeeps
<1>2. CASE BuyFails(k)
  <2>1. PICK next : next = [click[k] EXCEPT !.at = "refused"]
    OBVIOUS
  <2>2. /\ click' = [click EXCEPT ![k] = next] /\ click[k].at # "unsent"
        /\ UNCHANGED <<page, settings, failCounter, version, get, history>>
    BY <1>2, <2>1, TypeParts DEF BuyFails, IInv, ClicksOK
  <2> QED
    BY <2>1, <2>2, SoldKeeps
<1>3. CASE Sold(k)
  <2>1. PICK outcome \in {"response", "error"} :
          click' = [click EXCEPT ![k].page = outcome]
    BY <1>3 DEF Sold
  <2>2. PICK next : next = [click[k] EXCEPT !.page = outcome]
    OBVIOUS
  <2>3. /\ click' = [click EXCEPT ![k] = next] /\ click[k].at # "unsent"
        /\ UNCHANGED <<page, settings, failCounter, version, get, history>>
    BY <1>3, <2>1, <2>2, TypeParts DEF Sold, IInv, ClicksOK
  <2> QED
    BY <2>2, <2>3, SoldKeeps
<1> QED
  BY <1>1, <1>2, <1>3

(* Another version of the table: what was shown or listed stays so.         *)
LEMMA RepriceKeeps ==
  ASSUME IInv, Reprice
  PROVE  IInv'
<1>1. PageOK /\ ServiceOK /\ GetsOK /\ ClicksOK
  BY TypeParts DEF IInv
<1>2. /\ version < Versions /\ version' = version + 1
      /\ UNCHANGED <<route, instance, products, checked, settings, failCounter, get, click, since,
                     spoiled, raced>>
  BY DEF Reprice, page, history
<1>3. 1..version \subseteq (1..version)' /\ version' \in 1..Versions
  BY <1>1, <1>2, ShopAssumption DEF ServiceOK
<1>4. Listing \subseteq Listing' /\ Purchase \subseteq Purchase'
  BY <1>3 DEF Listing, Purchase
<1>5. PageOK' /\ GetsOK'
  BY <1>1, <1>2, <1>3, <1>4 DEF PageOK, GetsOK
<1>6. ServiceOK'
  BY <1>1, <1>2, <1>3 DEF ServiceOK
<1>7. ClicksOK'
  BY <1>1, <1>2, <1>3, <1>4 DEF ClicksOK
<1>8. VisitIsItsOwn'
  BY <1>2, VisitSame DEF IInv, TypeInv
<1>9. CountInv'
  BY <1>2, CountSame DEF IInv
<1> QED
  BY <1>5, <1>6, <1>7, <1>8, <1>9, TypePartsNext DEF IInv

-----------------------------------------------------------------------------
(* One listing goes on, on the way to the service or in it.                 *)
LEMMA ServiceKeeps ==
  ASSUME IInv, NEW g \in Get, NEW next \in Listing, get' = [get EXCEPT ![g] = next],
         get[g].at # "received", UNCHANGED <<page, settings, version, click>>,
         failCounter' \in Nat, since' \in Nat, spoiled' \in Nat, raced' \in BOOLEAN, CountInv'
  PROVE  IInv'
<1>1. PageOK /\ ServiceOK /\ GetsOK /\ ClicksOK
  BY TypeParts DEF IInv
<1>2. PageOK' /\ ClicksOK'
  BY <1>1, ClicksSame DEF PageOK, page
<1>3. ServiceOK'
  BY <1>1 DEF ServiceOK
<1>4. GetsOK'
  BY <1>1, GetsKept
<1>5. VisitIsItsOwn'
  <2>1. \A h \in Get : get[h].at = "received" => get'[h] = get[h]
    BY <1>1, GetStep
  <2> QED
    BY <2>1, VisitSame DEF IInv, TypeInv, page
<1> QED
  BY <1>2, <1>3, <1>4, <1>5, TypePartsNext DEF IInv

(* A listing that is alone is judged: afterwards the counter is even.       *)
LEMMA Alone ==
  ASSUME TypeInv, CountInv, ~ raced, NEW g \in Get, get[g].at \in {"read", "counted"}
  PROVE  \A h \in Get \ {g} : get[h].at \notin {"read", "counted"}
BY DEF CountInv, Counting

(* Another browser asks.                                                    *)
LEMMA OtherGetKeeps ==
  ASSUME IInv, NEW g \in Get, OtherGet(g)
  PROVE  IInv'
<1>1. PageOK /\ ServiceOK /\ GetsOK /\ ClicksOK
  BY TypeParts DEF IInv
<1>2. UNCHANGED <<page, settings, failCounter, version, click, history>> /\ Send(g)
  BY DEF OtherGet
<1>3. /\ GetsOK'
      /\ \A h \in Get : get'[h] = get[h] \/ (get[h].at = "unsent" /\ get'[h].at = "sent")
  BY <1>1, <1>2, SendKeeps
<1>4. PageOK' /\ ServiceOK' /\ ClicksOK'
  BY <1>1, <1>2, ClicksSame DEF PageOK, ServiceOK, page, history
<1>5. VisitIsItsOwn'
  BY <1>2, <1>3, VisitSame DEF IInv, TypeInv, page
<1>6. CountInv'
  BY <1>2, <1>3, CountApart DEF IInv, history
<1> QED
  BY <1>3, <1>4, <1>5, <1>6, TypePartsNext DEF IInv

(* The counter is read.                                                     *)
LEMMA ReadKeeps ==
  ASSUME IInv, NEW g \in Get, ReadCounter(g)
  PROVE  IInv'
<1>1. ServiceOK /\ GetsOK
  BY TypeParts DEF IInv
<1>2. PICK next : next = [get[g] EXCEPT !.at = "read", !.read = failCounter]
  OBVIOUS
<1>3. get[g] \in Listing /\ failCounter \in Nat
  BY <1>1 DEF GetsOK, ServiceOK
<1>4. next \in Listing /\ next.at = "read" /\ next.read = failCounter
  BY <1>2, <1>3 DEF Listing
<1>5. /\ get' = [get EXCEPT ![g] = next] /\ get[g].at = "sent"
      /\ raced' = (raced \/ Counting # {})
      /\ UNCHANGED <<page, settings, failCounter, version, click, since, spoiled>>
  BY <1>2 DEF ReadCounter
<1>6. raced' \in BOOLEAN
  BY <1>5
<1>7. get'[g] = next /\ \A h \in Get \ {g} : get'[h] = get[h]
  BY <1>1, <1>5, GetStep
<1>8. CountInv'
  <2> SUFFICES ASSUME ~ raced, Counting = {} PROVE CountInv'
    BY <1>5 DEF CountInv
  <2>1. spoiled = Due(failCounter) /\ Due(failCounter)' = Due(failCounter)
    BY <1>5 DEF IInv, CountInv, Due
  <2>2. \A h \in Get \ {g} : get'[h].at \notin {"read", "counted"}
    BY <1>7 DEF Counting
  <2>3. Counting' = {g}
    BY <1>4, <1>7, <2>2 DEF Counting
  <2> QED
    BY <1>4, <1>5, <1>7, <2>1, <2>2, <2>3 DEF CountInv
<1> QED
  BY <1>1, <1>3, <1>4, <1>5, <1>6, <1>8, ServiceKeeps DEF ServiceOK

(* And written.                                                             *)
LEMMA WriteKeeps ==
  ASSUME IInv, NEW g \in Get, WriteCounter(g)
  PROVE  IInv'
<1>1. ServiceOK /\ GetsOK
  BY TypeParts DEF IInv
<1>2. PICK next : next = [get[g] EXCEPT !.at = "counted", !.read = 0]
  OBVIOUS
<1>3. get[g] \in Listing /\ get[g].read \in Nat
  BY <1>1 DEF GetsOK, Listing
<1>4. next \in Listing /\ next.at = "counted"
  BY <1>2, <1>3 DEF Listing
<1>5. /\ get' = [get EXCEPT ![g] = next] /\ get[g].at = "read"
      /\ failCounter' = get[g].read + 1
      /\ UNCHANGED <<page, settings, version, click, since, spoiled, raced>>
  BY <1>2 DEF WriteCounter, history
<1>6. get'[g] = next /\ \A h \in Get \ {g} : get'[h] = get[h]
  BY <1>1, <1>5, GetStep
<1>7. CountInv'
  <2> SUFFICES ASSUME ~ raced PROVE CountInv'
    BY <1>5 DEF CountInv
  <2>1. get[g].read = failCounter /\ spoiled = Due(failCounter)
    BY <1>5 DEF IInv, CountInv
  <2>2. \A h \in Get \ {g} : get'[h].at \notin {"read", "counted"}
    BY <1>5, <1>6, Alone DEF IInv
  <2>3. Counting' = {g}
    BY <1>4, <1>6, <2>2 DEF Counting
  <2>4. failCounter' # 0 /\ spoiled' = Due(failCounter - 1)'
    <3>1. failCounter' - 1 = failCounter /\ failCounter' # 0
      BY <1>3, <1>5, <2>1
    <3> QED
      BY <1>5, <2>1, <3>1 DEF Due
  <2> QED
    BY <1>4, <1>5, <1>6, <2>2, <2>3, <2>4 DEF CountInv
<1>8. raced \in BOOLEAN /\ raced' = raced
  BY <1>1, <1>5 DEF ServiceOK
<1>9. raced' \in BOOLEAN
  BY <1>8
<1>10. failCounter' \in Nat /\ since' \in Nat /\ spoiled' \in Nat
  BY <1>1, <1>3, <1>5 DEF ServiceOK
<1>11. get[g].at # "received"
  BY <1>5
<1> QED
  BY <1>4, <1>5, <1>7, <1>9, <1>10, <1>11, ServiceKeeps

(* The listing is answered: the counter has made it fail or not.            *)
LEMMA AnswerKeeps ==
  ASSUME IInv, NEW g \in Get, GetAllProducts(g) \/ QueryFails(g)
  PROVE  IInv'
<1>1. ServiceOK /\ GetsOK
  BY TypeParts DEF IInv
<1>2. PICK of \in (1..version) \cup {None} :
        get' = [get EXCEPT ![g].at = "answered", ![g].of = of]
  <2>1. version \in 1..version /\ get[g].of \in (1..version) \cup {None}
    BY <1>1 DEF ServiceOK, GetsOK, Listing
  <2>2. CASE GetAllProducts(g)
    BY <2>1, <2>2 DEF GetAllProducts
  <2>3. CASE QueryFails(g)
    <3>1. get' = [get EXCEPT ![g].at = "answered", ![g].of = get[g].of]
      BY <1>1, <2>3 DEF QueryFails, GetsOK, Listing
    <3> QED
      BY <2>1, <3>1
  <2> QED
    BY <2>2, <2>3
<1>3. PICK next : next = [get[g] EXCEPT !.at = "answered", !.of = of]
  OBVIOUS
<1>4. get[g] \in Listing
  BY <1>1 DEF GetsOK
<1>5. next \in Listing /\ next.at = "answered"
  BY <1>3, <1>4 DEF Listing
<1>6. /\ get' = [get EXCEPT ![g] = next] /\ get[g].at = "counted"
      /\ spoiled' = IF settings.enableFailures /\ Fails(failCounter) /\ ~ raced
                    THEN spoiled + 1 ELSE spoiled
      /\ UNCHANGED <<page, settings, failCounter, version, click, since, raced>>
  BY <1>2, <1>3 DEF GetAllProducts, QueryFails, history
<1>7. get'[g] = next /\ \A h \in Get \ {g} : get'[h] = get[h]
  BY <1>1, <1>6, GetStep
<1>8. failCounter' \in Nat /\ since' \in Nat /\ spoiled' \in Nat /\ raced' \in BOOLEAN
  BY <1>1, <1>6 DEF ServiceOK
<1>9. CountInv'
  <2> SUFFICES ASSUME ~ raced PROVE CountInv'
    BY <1>6 DEF CountInv
  <2>1. failCounter # 0 /\ spoiled = Due(failCounter - 1)
    BY <1>6 DEF IInv, CountInv
  <2>2. spoiled' = Due(failCounter)'
    <3>1. Due(failCounter)' = Due(failCounter)
      BY <1>6 DEF Due
    <3> QED
      BY <1>1, <1>6, <2>1, <3>1, DueGrows
  <2>3. \A h \in Get : get'[h].at \notin {"read", "counted"}
    BY <1>5, <1>6, <1>7, Alone DEF IInv
  <2>4. Counting' = {}
    BY <2>3 DEF Counting
  <2> QED
    BY <1>6, <2>2, <2>3, <2>4 DEF CountInv
<1> QED
  BY <1>5, <1>6, <1>8, <1>9, ServiceKeeps

(* The answer arrives: it is shown where it was asked for.                  *)
LEMMA GetDataKeeps ==
  ASSUME IInv, NEW g \in Get, getData(g)
  PROVE  IInv'
<1>1. PageOK /\ ServiceOK /\ GetsOK /\ ClicksOK
  BY TypeParts DEF IInv
<1>2. PICK next : next = [get[g] EXCEPT !.at = "received"]
  OBVIOUS
<1>3. get[g] \in Listing
  BY <1>1 DEF GetsOK
<1>4. next \in Listing /\ next.at = "received" /\ next.of = get[g].of
  BY <1>2, <1>3 DEF Listing
<1>5. /\ get' = [get EXCEPT ![g] = next] /\ get[g].at = "answered"
      /\ products' = IF g = instance THEN get[g].of ELSE products
      /\ UNCHANGED <<route, instance, checked, settings, failCounter, version, click, since,
                     spoiled, raced>>
  BY <1>2 DEF getData, history
<1>6. get'[g] = next /\ \A h \in Get \ {g} : get'[h] = get[h]
  BY <1>1, <1>5, GetStep
<1>7. get[g].of \in (1..version) \cup {None}
  BY <1>3 DEF Listing
<1>8. PageOK'
  BY <1>1, <1>5, <1>7 DEF PageOK
<1>9. ServiceOK' /\ ClicksOK'
  BY <1>1, <1>5, ClicksSame DEF ServiceOK
<1>10. GetsOK'
  BY <1>1, <1>4, <1>5, GetsKept
<1>11. CountInv'
  BY <1>4, <1>5, <1>6, CountApart DEF IInv
<1>12. VisitIsItsOwn'
  <2>1. CASE g = instance
    <3>1. products = None
      BY <1>5, <2>1 DEF IInv, VisitIsItsOwn
    <3>2. checked' = {}
      BY <1>5, <3>1, NoCategories DEF IInv, VisitIsItsOwn
    <3>3. instance' # None
      BY <1>5, <2>1, ShopAssumption
    <3>4. get'[instance'].at = "received" /\ get'[instance'].of = products'
      BY <1>4, <1>5, <1>6, <2>1
    <3> QED
      BY <3>2, <3>3, <3>4 DEF VisitIsItsOwn
  <2>2. CASE g # instance
    <3>1. \A h \in Get : get[h].at = "received" => get'[h] = get[h]
      BY <1>5, <1>6
    <3> QED
      BY <1>5, <2>2, <3>1, VisitSame DEF IInv, TypeInv
  <2> QED
    BY <2>1, <2>2
<1> QED
  BY <1>8, <1>9, <1>10, <1>11, <1>12, TypePartsNext DEF IInv

(* The answer is lost.                                                      *)
LEMMA LostKeeps ==
  ASSUME IInv, AnswerLost
  PROVE  IInv'
<1>1. PageOK /\ ServiceOK /\ GetsOK /\ ClicksOK
  BY TypeParts DEF IInv
<1>2. UNCHANGED <<page, settings, failCounter, version, history>>
  BY DEF AnswerLost
<1>3. ASSUME NEW g \in Get, get[g].at = "answered",
             get' = [get EXCEPT ![g].at = "received", ![g].of = None], UNCHANGED click
      PROVE  IInv'
  <2>1. PICK next : next = [get[g] EXCEPT !.at = "received", !.of = None]
    OBVIOUS
  <2>2. get[g] \in Listing
    BY <1>1 DEF GetsOK
  <2>3. next \in Listing /\ next.at = "received"
    BY <2>1, <2>2 DEF Listing
  <2>4. get' = [get EXCEPT ![g] = next]
    BY <1>3, <2>1
  <2>5. get'[g] = next /\ \A h \in Get \ {g} : get'[h] = get[h]
    BY <1>1, <2>4, GetStep
  <2>6. CountInv'
    BY <1>2, <1>3, <2>3, <2>5, CountApart DEF IInv, history
  <2>7. failCounter' \in Nat /\ since' \in Nat /\ spoiled' \in Nat
    BY <1>1, <1>2 DEF ServiceOK, history
  <2>8. raced \in BOOLEAN /\ raced' = raced
    BY <1>1, <1>2 DEF ServiceOK, history
  <2>9. raced' \in BOOLEAN
    BY <2>8
  <2> QED
    BY <1>2, <1>3, <2>3, <2>4, <2>6, <2>7, <2>9, ServiceKeeps
<1>4. ASSUME NEW k \in Click, click[k].at = "answered",
             click' = [click EXCEPT ![k].page = "error"], UNCHANGED get
      PROVE  IInv'
  <2>1. PICK next : next = [click[k] EXCEPT !.page = "error"]
    OBVIOUS
  <2>2. click' = [click EXCEPT ![k] = next]
    BY <1>4, <2>1
  <2> QED
    BY <1>2, <1>4, <2>1, <2>2, SoldKeeps
<1> QED
  BY <1>3, <1>4 DEF AnswerLost

(* The service restarts: nothing is being counted, and the count is new.    *)
LEMMA RestartKeeps ==
  ASSUME IInv, Restart
  PROVE  IInv'
<1>1. PageOK /\ ServiceOK /\ GetsOK /\ ClicksOK
  BY TypeParts DEF IInv
<1>2. /\ failCounter' = 0 /\ since' = 0 /\ spoiled' = 0 /\ raced' = FALSE
      /\ UNCHANGED <<page, settings, version>>
  BY DEF Restart
<1>3. \A g \in Get : get'[g] = IF get[g].at \in {"sent", "read", "counted"}
                              THEN [at |-> "answered", read |-> 0, of |-> None] ELSE get[g]
  BY DEF Restart
<1>4. [at |-> "answered", read |-> 0, of |-> None] \in Listing
  BY DEF Listing
<1>5. GetsOK'
  <2>1. \A g \in Get : get'[g] \in Listing
    BY <1>1, <1>3, <1>4 DEF GetsOK
  <2>2. get' \in [Get -> Listing]
    BY <2>1 DEF Restart
  <2>3. Listing' = Listing
    BY <1>2 DEF Listing
  <2> QED
    BY <2>2, <2>3 DEF GetsOK
<1>6. ClicksOK'
  <2>1. \A k \in Click : click'[k] = IF click[k].at = "sent"
                                     THEN [click[k] EXCEPT !.at = "refused"] ELSE click[k]
    BY DEF Restart
  <2>2. \A p \in Purchase : /\ [p EXCEPT !.at = "refused"] \in Purchase
                            /\ [p EXCEPT !.at = "refused"].shown = p.shown
                            /\ [p EXCEPT !.at = "refused"].product = p.product
    BY DEF Purchase
  <2>3. \A k \in Click : /\ click'[k] \in Purchase
                         /\ click'[k].at # "unsent" => click[k].at # "unsent"
                         /\ click'[k].shown = click[k].shown
                         /\ click'[k].product = click[k].product
    BY <1>1, <2>1, <2>2 DEF ClicksOK
  <2>4. click' \in [Click -> Purchase]
    BY <2>3 DEF Restart
  <2>5. Purchase' = Purchase
    BY <1>2 DEF Purchase
  <2> QED
    BY <1>1, <1>2, <2>3, <2>4, <2>5 DEF ClicksOK
<1>7. PageOK'
  BY <1>1, <1>2 DEF PageOK, page
<1>8. ServiceOK'
  <2>1. settings' \in Settings /\ raced' \in BOOLEAN
    BY <1>1, <1>2 DEF ServiceOK
  <2>2. failCounter' \in Nat /\ since' \in Nat /\ spoiled' \in Nat /\ version' \in 1..Versions
    BY <1>1, <1>2 DEF ServiceOK
  <2> QED
    BY <2>1, <2>2 DEF ServiceOK, Settings
<1>9. VisitIsItsOwn'
  <2>1. \A g \in Get : get[g].at = "received" => get'[g] = get[g]
    BY <1>3
  <2> QED
    BY <1>2, <2>1, VisitSame DEF IInv, TypeInv, page
<1>10. CountInv'
  <2>1. \A g \in Get : get'[g].at \notin {"read", "counted"}
    BY <1>3
  <2>2. Counting' = {}
    BY <2>1 DEF Counting
  <2>3. spoiled' = Due(failCounter)'
    <3>1. PICK R : R = settings.failureRate
      OBVIOUS
    <3>2. R \in Nat \ {0}
      BY <1>1, <3>1, ShopAssumption DEF ServiceOK, Settings
    <3>3. 0 \div R - 0 \div R = 0
      BY <3>2, NoMultiples
    <3> QED
      BY <1>2, <3>1, <3>3 DEF Due
  <2> QED
    BY <1>2, <2>1, <2>2, <2>3 DEF CountInv
<1> QED
  BY <1>5, <1>6, <1>7, <1>8, <1>9, <1>10, TypePartsNext DEF IInv

(* The settings are read again: between listings the count starts anew.     *)
LEMMA ReloadKeeps ==
  ASSUME IInv, Reload
  PROVE  IInv'
<1>1. PageOK /\ ServiceOK /\ GetsOK /\ ClicksOK
  BY TypeParts DEF IInv
<1>2. settings' \in Settings /\ UNCHANGED <<page, failCounter, version, get, click>>
  BY DEF Reload
<1>3. since' \in Nat /\ spoiled' \in Nat /\ raced' \in BOOLEAN
  <2>1. raced' = TRUE \/ raced' = FALSE
    BY DEF Reload
  <2>2. since' \in Nat /\ spoiled' \in Nat
    BY <1>1 DEF Reload, ServiceOK
  <2> QED
    BY <2>1, <2>2
<1>4. PageOK' /\ GetsOK' /\ ClicksOK'
  BY <1>1, <1>2, GetsSame, ClicksSame DEF PageOK, page
<1>5. ServiceOK'
  <2>1. Settings' = Settings
    BY DEF Settings
  <2> QED
    BY <1>1, <1>2, <1>3, <2>1 DEF ServiceOK
<1>6. VisitIsItsOwn'
  BY <1>2, VisitSame DEF IInv, TypeInv, page
<1>7. CountInv'
  <2>1. CASE Counting # {}
    BY <2>1 DEF Reload, CountInv
  <2>2. CASE Counting = {}
    <3>1. Counting' = {} /\ since' = failCounter' /\ spoiled' = 0
      BY <1>2, <2>2 DEF Reload, Counting
    <3>2. PICK R : R = settings'.failureRate
      OBVIOUS
    <3>3. R \in Nat \ {0} /\ failCounter' \in Nat
      BY <1>1, <1>2, <3>2, ShopAssumption DEF ServiceOK, Settings
    <3>4. failCounter' \div R - failCounter' \div R = 0
      BY <3>3, NoMultiples
    <3>5. spoiled' = Due(failCounter)'
      BY <3>1, <3>2, <3>4 DEF Due
    <3>6. \A g \in Get : get'[g].at \notin {"read", "counted"}
      BY <3>1 DEF Counting
    <3> QED
      BY <3>1, <3>5, <3>6 DEF CountInv
  <2> QED
    BY <2>1, <2>2
<1> QED
  BY <1>4, <1>5, <1>6, <1>7, TypePartsNext DEF IInv

(* Every step keeps the invariant.                                          *)
LEMMA NextKeeps == IInv /\ [Next]_vars => IInv'
<1> SUFFICES ASSUME IInv, [Next]_vars PROVE IInv'
  OBVIOUS
<1>1. ASSUME NEW path \in Path, Navigate(path) \/ Load(path) PROVE IInv'
  BY <1>1, NavigateKeeps
<1>2. CASE \E p \in Products : Check(p.category)
  BY <1>2, PageKeeps
<1>3. ASSUME NEW p \in Products, NEW k \in Click, sendData(k, p) PROVE IInv'
  BY <1>3, SendDataKeeps
<1>4. ASSUME NEW g \in Get, OtherGet(g) \/ Serve(g) PROVE IInv'
  BY <1>4, OtherGetKeeps, ReadKeeps, WriteKeeps, AnswerKeeps, GetDataKeeps DEF Serve
<1>5. ASSUME NEW k \in Click, Buy(k) \/ BuyFails(k) \/ Sold(k) PROVE IInv'
  BY <1>5, BuyKeeps
<1>6. CASE AnswerLost \/ Reload \/ Reprice \/ Restart
  BY <1>6, LostKeeps, ReloadKeeps, RepriceKeeps, RestartKeeps
<1>7. CASE UNCHANGED vars
  <2>1. UNCHANGED <<page, settings, failCounter, version, get, click, history>>
    BY <1>7 DEF vars
  <2>2. ClicksOK'
    BY <2>1, TypeParts, ClicksSame DEF IInv
  <2> QED
    BY <2>1, <2>2, ClickKeeps
<1> QED
  BY <1>1, <1>2, <1>3, <1>4, <1>5, <1>6, <1>7 DEF Next

(* The invariant holds throughout.                                          *)
LEMMA Invariance == Spec => []IInv
BY InitHolds, NextKeeps, PTL DEF Spec

(* The types, a Shop component exactly on its route, and purchases only of  *)
(* what the page had.                                                       *)
THEOREM TypeCorrect == Spec => []TypeOK
<1>1. IInv => TypeOK
  BY DEF IInv, TypeInv
<1> QED
  BY <1>1, Invariance, PTL

(* Whichever visits were left with their listings under way, a visit shows  *)
(* its own, and filters by nothing else.                                    *)
THEOREM OwnVisit == Spec => []VisitIsItsOwn
<1>1. IInv => VisitIsItsOwn
  BY DEF IInv
<1> QED
  BY <1>1, Invariance, PTL

(* Whatever the settings are and change to, restarts included, the counter  *)
(* that is static and not locked makes as many listings fail as it passes   *)
(* multiples of the rate, unless one raced with another or with a reload.   *)
THEOREM ShareFails == Spec => []OnlyRacesMiscount
<1>1. IInv => OnlyRacesMiscount
  BY DEF IInv, CountInv, Due, OnlyRacesMiscount
<1> QED
  BY <1>1, Invariance, PTL
=============================================================================
