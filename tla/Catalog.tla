------------------------------- MODULE Catalog -------------------------------
(***************************************************************************)
(* The shop (services/ecommerce/src/routers): every table is served by the *)
(* same handlers (shared/crud.ts) with hooks of its own, and the assignment*)
(* of categories to a brand.                                               *)
(*                                                                         *)
(* A call is a sequence of statements: the validation reads, the writing   *)
(* statement, and for a product two more that replace its collections; no  *)
(* transaction holds them together, and a call may fail or die at each of  *)
(* them with what it has written.  The schema's unique indexes and         *)
(* foreign keys decide what a statement does or refuses; a permanent       *)
(* deletion follows ON DELETE.  Lookups and indexes see deleted rows       *)
(* unless they say otherwise.                                              *)
(*                                                                         *)
(* One customer and one member of staff with every permission; a column    *)
(* that no check reads is left out.                                        *)
(***************************************************************************)
EXTENDS Integers, FiniteSets, Sequences

CONSTANTS
  Requests,  \* the calls
  Keys,      \* what a unique index is on: name, slug or SKU
  MaxId,     \* bound: rows of a table
  Scenes     \* bound: the sets of tables that the calls of one behaviour are about

Kinds == {"brand", "category", "subcategory", "collection", "product", "variant",
          "warehouse", "inventory", "address", "order", "item", "payment", "review",
          "subscription"}

\* Assumed of the constants; the run of ServicesMC evaluates it.
CatalogAssumption ==
  /\ MaxId \in Nat \ {0} /\ Scenes \in SUBSET SUBSET Kinds
  /\ Keys # {} /\ \A n \in Keys : \E m \in Keys : m # n

----------------------------------------------------------------------------
(* The schema: what each table refers to, and what a deletion there does to it *)

Cascade(t)  == [to |-> t, on |-> "cascade"]
Restrict(t) == [to |-> t, on |-> "restrict"]
SetNull(t)  == [to |-> t, on |-> "set null"]

CategoryKeys == {SetNull("brand")}
SubcategoryKeys == {Cascade("category")}
ProductKeys == {Restrict("brand"), Restrict("category"), Restrict("subcategory")}
VariantKeys == {Cascade("product")}
InventoryKeys == {Cascade("variant"), Restrict("warehouse")}
OrderKeys == {SetNull("address")}
\* Mutant: what was ordered goes with what is deleted from the shop.
ItemKeysCascade  == {Cascade("order"), Cascade("variant")}
ItemKeys == {Cascade("order"), Restrict("variant")}
PaymentKeys == {Restrict("order")}
ReviewKeys == {Cascade("product")}
SubscriptionKeys == {Restrict("variant"), SetNull("address")}

ForeignKeys ==
  [k \in Kinds |->
     CASE k = "category" -> CategoryKeys        [] k = "subcategory" -> SubcategoryKeys
       [] k = "product" -> ProductKeys          [] k = "variant" -> VariantKeys
       [] k = "inventory" -> InventoryKeys      [] k = "order" -> OrderKeys
       [] k = "item" -> ItemKeys                [] k = "payment" -> PaymentKeys
       [] k = "review" -> ReviewKeys            [] k = "subscription" -> SubscriptionKeys
       [] OTHER -> {}]

\* What tells two rows of a table apart: a key of their own, a key within what some of
\* their columns name, or those columns alone.
Keyed == {"brand", "category", "collection", "variant", "warehouse", "order", "payment"}
Within == [subcategory |-> "category", product |-> "brand"]
Paired == {"inventory", "review"}

VARIABLES
  scene,  \* bound: the tables the calls are about
  rows,   \* the tables
  links,  \* product_collection_products
  call    \* where each request is

vars == <<scene, rows, links, call>>

Ids == scene \X (1..MaxId)
Kind(id) == id[1]
None == [state |-> "none"]
Row == [key: Keys, up: SUBSET (Kinds \X Nat), state: {"live", "deleted"}]

There(id) == rows[id].state # "none"
Live(id) == rows[id].state = "live"
Up(row, k) == {p \in row.up : Kind(p) = k}

Refers(child, parent, on) ==
  /\ There(child) /\ parent \in rows[child].up
  /\ \E f \in ForeignKeys[Kind(child)] : f.to = Kind(parent) /\ f.on = on

----------------------------------------------------------------------------
(* What a call is *)

Statements == {"order", "valid", "write", "unlink", "link", "brand", "categories",
               "unassign", "assign"}
Ops == {"create", "update", "delete", "restore", "purge", "assign"}
Codes == {200, 201, 403, 404, 409, 422, 500}

Call ==
       [pc: {"new"}]
  \cup [pc: {"run"}, op: Ops, id: Kinds \X Nat, row: Row, links: SUBSET (Kinds \X Nat),
        todo: Seq(Statements), wrote: BOOLEAN, raced: BOOLEAN]
  \cup [pc: {"done"}, kind: Kinds, code: Codes, wrote: BOOLEAN, raced: BOOLEAN,
        kept: BOOLEAN]

TypeOK ==
  /\ scene \in Scenes
  /\ rows \in [Ids -> Row \cup {None}]
  /\ links \subseteq {i \in Ids : Kind(i) = "product"} \X {i \in Ids : Kind(i) = "collection"}
  /\ call \in [Requests -> Call]

Begin(r, op, id, row, coll, todo) ==
  /\ call[r].pc = "new"
  /\ call' = [call EXCEPT ![r] = [pc |-> "run", op |-> op, id |-> id, row |-> row,
                                  links |-> coll, todo |-> todo, wrote |-> FALSE,
                                  raced |-> FALSE]]
  /\ UNCHANGED <<scene, rows, links>>

\* What a row names: one row for each of its keys; of what is set to null, maybe none.
Named(k) ==
  {up \in SUBSET {p \in Ids : \E f \in ForeignKeys[k] : f.to = Kind(p)} :
     \A f \in {g \in ForeignKeys[k] : g.to \in scene} :
       LET n == Cardinality({p \in up : Kind(p) = f.to})
       IN  n = 1 \/ (n = 0 /\ f.on = "set null")}

\* The bodies a table takes.
Bodies(k) == {[key |-> key, up |-> up, state |-> "live"] : key \in Keys, up \in Named(k)}

\* The collections a product's body names, possibly none.
Collections(k) ==
  IF k = "product" THEN SUBSET {i \in Ids : Kind(i) = "collection"} ELSE {{}}

\* beforeCreate and beforeUpdate, the statement, afterCreate and afterUpdate.
Hooks(k) ==
  CASE k = "product" /\ "collection" \in scene -> <<"valid", "write", "unlink", "link">>
    [] k \in {"variant", "order", "subscription"} -> <<"valid", "write">>
    [] OTHER -> <<"write">>

\* A product's body may also leave its collections alone.
Courses(k) == {Hooks(k)} \cup IF k = "product" THEN {<<"write">>} ELSE {}

Create(r) ==
  \E k \in scene, n \in 1..MaxId :
    /\ rows[<<k, n>>] = None /\ \A j \in 1..MaxId : rows[<<k, j>>] = None => n <= j
    /\ \A q \in Requests : call[q].pc = "run" => call[q].id # <<k, n>>  \* a random id
    /\ \E row \in Bodies(k), coll \in Collections(k), todo \in Courses(k) :
         Begin(r, "create", <<k, n>>, row, coll,
               IF k \in {"item", "payment"} /\ "order" \in scene
               THEN <<"order">> \o todo ELSE todo)

Update(r) ==
  \E id \in Ids :
    \E row \in Bodies(Kind(id)), coll \in Collections(Kind(id)), todo \in Courses(Kind(id)) :
      Begin(r, "update", id, row, coll, todo)

Blank == [key |-> CHOOSE k \in Keys : TRUE, up |-> {}, state |-> "live"]
SoftDelete(r) == \E id \in Ids : Begin(r, "delete", id, Blank, {}, <<"write">>)
Restore(r) == \E id \in Ids : Begin(r, "restore", id, Blank, {}, <<"write">>)
PermanentDelete(r) == \E id \in Ids : Begin(r, "purge", id, Blank, {}, <<"write">>)

\* PUT /brands/{id}/categories
AssignCategories(r) ==
  \E id \in Ids, cats \in SUBSET {i \in Ids : Kind(i) = "category"} :
    /\ Kind(id) = "brand"
    /\ Begin(r, "assign", id, Blank, cats, <<"brand", "categories", "unassign", "assign">>)

----------------------------------------------------------------------------
(* Statements *)

\* The rows that the transaction of another assignment holds until its commit.
Locked(r) ==
  UNION {call[q].row.up : q \in {p \in Requests \ {r} :
           call[p].pc = "run" /\ call[p].op = "assign" /\ call[p].todo = <<"assign">>}}

\* The call is answered; whether what it asked for is what is stored is noted.
Done(r, code, kept, calls) ==
  call' = [calls EXCEPT ![r] = [pc |-> "done", kind |-> Kind(call[r].id), code |-> code,
                                wrote |-> calls[r].wrote, raced |-> calls[r].raced,
                                kept |-> kept]]

\* The last statement took effect; the connection, the process or the read of what is
\* answered may still fail.
Saved(r, code, kept, calls) == Done(r, code, kept, calls) \/ Done(r, 500, kept, calls)

Answer(r, code) == Done(r, code, TRUE, call) /\ UNCHANGED <<scene, rows, links>>

Proceed(r) ==
  /\ call' = [call EXCEPT ![r].todo = Tail(@)]
  /\ UNCHANGED <<scene, rows, links>>

Doing(r, statement) ==
  call[r].pc = "run" /\ call[r].todo # <<>> /\ Head(call[r].todo) = statement

\* The order named is the customer's, deleted or not.
FindOrder(r) ==
  /\ Doing(r, "order")
  /\ IF \A p \in Up(call[r].row, "order") : There(p) THEN Proceed(r) ELSE Answer(r, 403)

\* What is looked up before the write; a product may also be no subscription product.
ValidProduct(c) == \A p \in c.links : Live(p)
ValidVariant(c) ==
  ~\E j \in Ids \ {c.id} : Kind(j) = "variant" /\ There(j) /\ rows[j].key = c.row.key
ValidOrder(c) == \A p \in Up(c.row, "address") : Live(p)
ValidSubscription(c) == \A p \in Up(c.row, "variant") : There(p)

Valid(c) ==
  CASE Kind(c.id) = "product" -> ValidProduct(c)
    [] Kind(c.id) = "variant" -> ValidVariant(c)
    [] Kind(c.id) = "order" -> ValidOrder(c)
    [] Kind(c.id) = "subscription" -> ValidSubscription(c)

Validate(r) ==
  /\ Doing(r, "valid")
  /\ \/ Valid(call[r]) /\ Proceed(r)
     \/ ~Valid(call[r]) /\ Answer(r, 422)
     \/ Kind(call[r].id) = "subscription" /\ Answer(r, 422)

\* 23505, caught and answered 409.
Duplicate(c) ==
  LET k == Kind(c.id)
  IN  \E j \in Ids \ {c.id} :
        /\ Kind(j) = k /\ There(j)
        /\ k \in Keyed => rows[j].key = c.row.key
        /\ k \in DOMAIN Within =>
             rows[j].key = c.row.key /\ Up(rows[j], Within[k]) = Up(c.row, Within[k])
        /\ k \in Paired => rows[j].up = c.row.up
        /\ k \in Keyed \cup DOMAIN Within \cup Paired

\* 23503, caught and answered 422: a row named is not there, a product's subcategory is
\* one of another category, or a subcategory leaves the category of its products.
Unmet(c) ==
  \/ \E p \in c.row.up : ~There(p)
  \/ /\ Kind(c.id) = "product"
     /\ \E s \in Up(c.row, "subcategory") :
          There(s) /\ Up(rows[s], "category") # Up(c.row, "category")
  \/ /\ Kind(c.id) = "subcategory" /\ There(c.id)
     /\ Up(rows[c.id], "category") # Up(c.row, "category")
     /\ \E j \in Ids : There(j) /\ Kind(j) = "product" /\ c.id \in rows[j].up

\* What a deletion takes with it, and whether something it may not take is in the way.
Doomed(id) ==
  LET Next2(S) == S \cup {j \in Ids : \E p \in S : Refers(j, p, "cascade")}
  IN  Next2(Next2({id}))
Held(id) == \E j \in Ids, p \in Doomed(id) : Refers(j, p, "restrict")

\* The other calls that a write of one row overlaps and that have to do with that row.
Overlapped(r, id) ==
  [q \in Requests |->
     IF q # r /\ call[q].pc = "run"
        /\ (Kind(call[q].id) = Kind(id) \/ id \in call[q].row.up \cup call[q].links
            \/ call[q].id \in call[r].row.up \cup call[r].links)
     THEN [call[q] EXCEPT !.raced = TRUE] ELSE call[q]]

\* The write succeeded: the next statement, or the answer.
Written(r, code) ==
  LET calls == [Overlapped(r, call[r].id) EXCEPT ![r].wrote = TRUE]
  IN  IF Len(call[r].todo) = 1 THEN Saved(r, code, TRUE, calls)
      ELSE call' = [calls EXCEPT ![r].todo = Tail(@)]

Insert(r) ==
  LET c == call[r]
  IN  /\ Doing(r, "write") /\ c.op = "create"
      /\ \/ Duplicate(c) /\ Answer(r, 409)
         \/ Unmet(c) /\ Answer(r, 422)
         \/ /\ ~Duplicate(c) /\ ~Unmet(c)
            /\ rows' = [rows EXCEPT ![c.id] = c.row]
            /\ Written(r, 201)
            /\ UNCHANGED <<scene, links>>

Set(r) ==
  LET c == call[r]
  IN  /\ Doing(r, "write") /\ c.op = "update" /\ c.id \notin Locked(r)
      /\ \/ ~Live(c.id) /\ Answer(r, 404)
         \/ Live(c.id) /\ Duplicate(c) /\ Answer(r, 409)
         \/ Live(c.id) /\ Unmet(c) /\ Answer(r, 422)
         \/ /\ Live(c.id) /\ ~Duplicate(c) /\ ~Unmet(c)
            /\ rows' = [rows EXCEPT ![c.id] = c.row]
            /\ Written(r, 200)
            /\ UNCHANGED <<scene, links>>

Mark(r) ==
  LET c == call[r]
      from == IF c.op = "delete" THEN "live" ELSE "deleted"
      to == IF c.op = "delete" THEN "deleted" ELSE "live"
  IN  /\ Doing(r, "write") /\ c.op \in {"delete", "restore"} /\ c.id \notin Locked(r)
      /\ \/ rows[c.id].state # from /\ Answer(r, 404)
         \/ /\ rows[c.id].state = from
            /\ rows' = [rows EXCEPT ![c.id].state = to]
            /\ Written(r, 200)
            /\ UNCHANGED <<scene, links>>

\* DELETE of a row marked deleted; an error here is not caught.
Purge(r) ==
  LET c == call[r]
  IN  /\ Doing(r, "write") /\ c.op = "purge" /\ Doomed(c.id) \cap Locked(r) = {}
      /\ \/ rows[c.id].state # "deleted" /\ Answer(r, 404)
         \/ rows[c.id].state = "deleted" /\ Held(c.id) /\ Answer(r, 500)
         \/ /\ rows[c.id].state = "deleted" /\ ~Held(c.id)
            /\ rows' = [i \in Ids |->
                 IF i \in Doomed(c.id) THEN None
                 ELSE IF There(i) /\ Refers(i, c.id, "set null")
                 THEN [rows[i] EXCEPT !.up = @ \ {c.id}] ELSE rows[i]]
            /\ links' = {l \in links : l[1] # c.id /\ l[2] # c.id}
            /\ Written(r, 200)
            /\ UNCHANGED scene

LinksOf(id) == {l[2] : l \in {m \in links : m[1] = id}}

\* Mutant: the collections are added to the ones the product has.
UnlinkNothing(r) == Doing(r, "unlink") /\ Written(r, 200) /\ UNCHANGED <<scene, rows, links>>

\* syncProductCollections: all are dropped, then the named ones inserted.
Unlink(r) ==
  /\ Doing(r, "unlink")
  /\ links' = {l \in links : l[1] # call[r].id}
  /\ Written(r, 200)
  /\ UNCHANGED <<scene, rows>>

Link(r) ==
  LET c == call[r]
      code == IF c.op = "create" THEN 201 ELSE 200
  IN  /\ Doing(r, "link")
      /\ \/ c.links \cap LinksOf(c.id) # {} /\ Answer(r, 409)
         \/ c.links # {} /\ (~There(c.id) \/ \E p \in c.links : ~There(p)) /\ Answer(r, 422)
         \/ /\ c.links \cap LinksOf(c.id) = {}
            /\ c.links = {} \/ (There(c.id) /\ \A p \in c.links : There(p))
            /\ links' = links \cup ({c.id} \X c.links)
            /\ Saved(r, code, LinksOf(c.id) = {}, [Overlapped(r, c.id) EXCEPT ![r].wrote = TRUE])
            /\ UNCHANGED <<scene, rows>>

FindBrand(r) ==
  Doing(r, "brand") /\ IF Live(call[r].id) THEN Proceed(r) ELSE Answer(r, 404)

FindCategories(r) ==
  /\ Doing(r, "categories")
  /\ IF \A p \in call[r].links : Live(p) THEN Proceed(r) ELSE Answer(r, 422)

InBrand(id) == {i \in Ids : Kind(i) = "category" /\ There(i) /\ id \in rows[i].up}

\* The first statement of the transaction: the rows it locks are the ones it saw.
Unassign(r) ==
  /\ Doing(r, "unassign") /\ InBrand(call[r].id) \cap Locked(r) = {}
  /\ call' = [call EXCEPT ![r].row.up = InBrand(call[r].id) \ call[r].links,
                          ![r].todo = Tail(@)]
  /\ UNCHANGED <<scene, rows, links>>

\* The second and the commit; it waits for the rows another holds, and of two that wait for
\* each other one is aborted.  The key check fails if the brand is gone.  Neither is caught.
Assign(r) ==
  LET c == call[r]
      held == c.links \cap Locked(r)
  IN  /\ Doing(r, "assign")
      /\ \/ /\ \E q \in Requests \ {r} :
                  Doing(q, "assign") /\ held # {} /\ call[q].links \cap c.row.up # {}
            /\ Answer(r, 500)
         \/ held = {} /\ ~There(c.id) /\ {p \in c.links : There(p)} # {} /\ Answer(r, 500)
         \/ /\ held = {} /\ (There(c.id) \/ {p \in c.links : There(p)} = {})
            /\ rows' = [i \in Ids |->
                 IF ~There(i) THEN None
                 ELSE IF i \in c.links THEN [rows[i] EXCEPT !.up = {c.id}]
                 ELSE IF i \in c.row.up THEN [rows[i] EXCEPT !.up = @ \ {c.id}]
                 ELSE rows[i]]
            /\ Saved(r, 200, InBrand(c.id) \ c.row.up \subseteq c.links,
                     [q \in Requests |->
                        IF q = r THEN [c EXCEPT !.wrote = TRUE]
                        ELSE IF call[q].pc = "run" THEN [call[q] EXCEPT !.raced = TRUE]
                        ELSE call[q]])
            /\ UNCHANGED <<scene, links>>

\* An error or a timeout of any statement, or the death of the process at it: what the
\* statements before it wrote stays, but for the transaction of an assignment.
Fail(r) ==
  /\ call[r].pc = "run"
  /\ Done(r, 500, FALSE, call)
  /\ UNCHANGED <<scene, rows, links>>

----------------------------------------------------------------------------
\* The first row of each table is live or deleted and names first rows; categories and
\* collections have a second row, and the first product is in the first collection.
Init ==
  /\ scene \in Scenes
  /\ \E deleted \in SUBSET (scene \X {1}) :
       rows = [id \in Ids |->
         LET k == Kind(id)
             up == {<<f.to, 1>> : f \in {g \in ForeignKeys[k] : g.to \in scene}}
         IN  IF id[2] = 1
             THEN [key |-> Blank.key, up |-> up,
                   state |-> IF id \in deleted THEN "deleted" ELSE "live"]
             ELSE IF id[2] = 2 /\ k \in {"category", "collection"}
             THEN [key |-> CHOOSE x \in Keys : x # Blank.key, up |-> {}, state |-> "live"]
             ELSE None]
  /\ links = IF {"product", "collection"} \subseteq scene
             THEN {<<<<"product", 1>>, <<"collection", 1>>>>} ELSE {}
  /\ call = [r \in Requests |-> [pc |-> "new"]]

Next ==
  \E r \in Requests :
    \/ Create(r) \/ Update(r) \/ SoftDelete(r) \/ Restore(r) \/ PermanentDelete(r)
    \/ AssignCategories(r)
    \/ FindOrder(r) \/ Validate(r) \/ Insert(r) \/ Set(r) \/ Mark(r) \/ Purge(r)
    \/ Unlink(r) \/ Link(r)
    \/ FindBrand(r) \/ FindCategories(r) \/ Unassign(r) \/ Assign(r)
    \/ Fail(r)

Spec == Init /\ [][Next]_vars

----------------------------------------------------------------------------
(* Properties *)

\* A product or a brand answered as saved has the collections or the categories that the
\* call named and no others, unless a call on the same rows overlapped it: the saving goes
\* over two statements after the row's own.
SavedAsAnswered ==
  \A r \in Requests :
    call[r].pc = "done" /\ call[r].code \in {200, 201} => call[r].kept \/ call[r].raced

\* A call that is refused has written nothing, unless a call on the same rows overlapped
\* it: what comes after the row is written was looked up before.
RefusedWroteNothing ==
  \A r \in Requests :
    call[r].pc = "done" /\ call[r].code \in 400..499 => ~call[r].wrote \/ call[r].raced

\* A call that fails has stored nothing or, unless another overlapped it, all that it
\* asked for; only of a product it may be the row without the collections.
HalfSavedIsProduct ==
  \A r \in Requests :
    call[r].pc = "done" /\ call[r].code = 500 =>
      ~call[r].wrote \/ call[r].kept \/ call[r].raced \/ call[r].kind = "product"

\* Whatever is deleted permanently from the shop, an ordered item goes only by itself or
\* with its order, a payment only by itself, and neither before it is marked deleted,
\* but for the items of a deleted order.
KeepsPurchases ==
  \A id \in Ids :
    There(id) /\ rows'[id] = None =>
      /\ Kind(id) = "item" =>
           rows[id].state = "deleted" \/ \E o \in Up(rows[id], "order") : rows'[o] = None
      /\ Kind(id) = "payment" => rows[id].state = "deleted"
PurchasesKept == [][KeepsPurchases]_vars
=============================================================================
