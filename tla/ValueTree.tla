----------------------------- MODULE ValueTree -----------------------------
(***************************************************************************)
(* The observable value tree (value.hpp, vector.hpp, map.hpp, string.hpp,  *)
(* observable.hpp) and the dirty tracking of transactions it feeds         *)
(* (transaction.hpp).  A value holds a binding (which transaction object,  *)
(* which root token), a memory resource and its data; containers and       *)
(* strings hold a binding and a resource of their own.  Containers are     *)
(* reached through shared_ptr but never shared, so a value is a tree.      *)
(* Commits are one step here: HeapState has their steps.                   *)
(***************************************************************************)
EXTENDS Integers, Sequences, FiniteSets, Functions, TLC

CONSTANTS Addresses,   \* places a transaction object can live at
          Names,       \* root names
          Keys,        \* object keys
          Numbers,     \* scalars
          Committed,   \* plain contents roots may have at the start
          Uses,        \* what the application does beyond editing roots:
                       \* "move_transaction", "copy_out", "move_out"
          MaxTx,       \* bound: transactions begun
          MaxEdits,    \* bound: edits and assignments
          MaxSize,     \* bound: elements of an array
          MaxText      \* bound: characters of a string

VARIABLES tx,      \* per address: the transaction object there
          store,   \* per name: committed version and plain content
          held,    \* a value the application keeps outside of any tree
          begun, edits

tvars == <<tx, store, held, begun, edits>>

Unbound == [observer |-> 0, root |-> 0]
Default == 0                  \* get_default_resource(); pools are 1, 2, ...
NoObject == [state |-> "none"]
MovedFrom == [state |-> "moved"]      \* impl_ is null
Null == [kind |-> "null"]
Nothing == [kind |-> "nothing"]
Scalar(n) == [kind |-> "scalar", number |-> n]
Text(b, r, size) == [kind |-> "string", bind |-> b, res |-> r, size |-> size]
Container(kind, b, r, kids) ==
    [kind |-> kind, bind |-> b, res |-> r, kids |-> kids, gone |-> FALSE]
Value(b, r, data) == [bind |-> b, res |-> r, data |-> data]

IsContainer(d) == d.kind \in {"array", "object"}
(* The pointer of a container that was moved away is null.                 *)
Gone(d) == IsContainer(d) /\ d.gone

-----------------------------------------------------------------------------
(* Walks over a tree.                                                      *)

RECURSIVE Bind(_, _)
RECURSIVE Copied(_)
RECURSIVE Plain(_)
RECURSIVE Loaded(_, _)
RECURSIVE At(_, _)
RECURSIVE Put(_, _, _)
RECURSIVE Nodes(_)

(* Seeded fault for Bind: the elements of a container are not bound.       *)
BindShallow(v, b) ==
    [v EXCEPT !.bind = b,
              !.data = IF IsContainer(@) \/ @.kind = "string"
                       THEN [@ EXCEPT !.bind = b] ELSE @]

(* vector::bind and map::bind for the elements; rebind_all.                *)
BindAll(kids, b) == [k \in DOMAIN kids |-> Bind(kids[k], b)]

(* value::bind.                                                            *)
Bind(v, b) ==
    [v EXCEPT !.bind = b,
              !.data = IF IsContainer(@) /\ ~ Gone(@)
                       THEN [@ EXCEPT !.bind = b, !.kids = BindAll(@, b)]
                       ELSE IF @.kind = "string" THEN [@ EXCEPT !.bind = b]
                       ELSE @]

(* The copy constructors: unbound, in the memory resource of the source.   *)
Copied(v) ==
    Value(Unbound, v.res,
          IF IsContainer(v.data)
          THEN Container(v.data.kind, Unbound, v.data.res,
                         [k \in DOMAIN v.data.kids |-> Copied(v.data.kids[k])])
          ELSE IF v.data.kind = "string"
          THEN [v.data EXCEPT !.bind = Unbound] ELSE v.data)

(* What is encoded of a value, and what is decoded from it into a pool.    *)
Plain(v) ==
    IF IsContainer(v.data)
    THEN [kind |-> v.data.kind,
          kids |-> [k \in DOMAIN v.data.kids |-> Plain(v.data.kids[k])]]
    ELSE IF v.data.kind = "string" THEN [kind |-> "string", size |-> v.data.size]
    ELSE v.data
Loaded(p, pool) ==
    Value(Unbound, pool,
          IF IsContainer(p)
          THEN Container(p.kind, Unbound, pool,
                         [k \in DOMAIN p.kids |-> Loaded(p.kids[k], pool)])
          ELSE IF p.kind = "string" THEN Text(Unbound, pool, p.size) ELSE p)

At(v, path) == IF path = << >> THEN v
               ELSE At(v.data.kids[Head(path)], Tail(path))
Put(v, path, new) ==
    IF path = << >> THEN new
    ELSE [v EXCEPT !.data.kids[Head(path)] = Put(@, Tail(path), new)]
Kids(v) == IF IsContainer(v.data) /\ ~ Gone(v.data)
           THEN Range(v.data.kids) ELSE {}
Nodes(v) == {v} \cup UNION {Nodes(kid) : kid \in Kids(v)}
KeysOf(v) == IF IsContainer(v.data) /\ ~ Gone(v.data)
             THEN DOMAIN v.data.kids ELSE {}
Paths(v) ==
    {<< >>} \cup {<<k>> : k \in KeysOf(v)}
    \cup UNION {{<<k, l>> : l \in KeysOf(v.data.kids[k])} : k \in KeysOf(v)}
Fits(v) == \A p \in Paths(v) : Len(p) = 2 => KeysOf(At(v, p)) = {}
Sound(v) == \A n \in Nodes(v) : ~ Gone(n.data)

-----------------------------------------------------------------------------
(* The operations of the classes.  Each yields the new node and the        *)
(* binding it notifies through.                                            *)

Result(node, via) == [node |-> node, via |-> via]
Silent(node) == Result(node, Unbound)

(* Assignment of the variant: a string assigned to a string copies the     *)
(* characters and stays in its own memory.                                 *)
Stored(old, new) == IF old.kind = "string" /\ new.kind = "string"
                    THEN [old EXCEPT !.size = new.size] ELSE new

(* value::replace, as_string, as_array and as_object.                      *)
Replace(v, data) ==
    Result(Bind([v EXCEPT !.data = Stored(@, data)], v.bind), v.bind)
AssignScalar(v, d) == Replace(v, d)
AssignText(v, size) == Replace(v, Text(Unbound, v.res, size))
AsString(v) == IF v.data.kind = "string" THEN Silent(v)
               ELSE Replace(v, Text(Unbound, v.res, 0))
AsArray(v) == IF v.data.kind = "array" THEN Silent(v)
              ELSE Replace(v, Container("array", Unbound, v.res, << >>))
AsObject(v) == IF v.data.kind = "object" THEN Silent(v)
               ELSE Replace(v, Container("object", Unbound, v.res, << >>))

(* value::operator=(const value&): copies in the source's resource.        *)
CopyAssign(v, other) ==
    Result(Bind([v EXCEPT !.res = other.res,
                          !.data = Stored(@, Copied(other).data)], v.bind),
           v.bind)

(* value::operator=(value&&) with a value that owns its data.              *)
MoveAssign(v, other) ==
    Result(Bind([v EXCEPT !.data = Stored(@, other.data),
                          !.res = IF v.bind = Unbound THEN other.res ELSE @],
                v.bind), v.bind)

(* map::operator[]: the mapped value is made with the default resource.    *)
Index(v, k) ==
    IF k \in DOMAIN v.data.kids THEN Silent(v)
    ELSE Result([v EXCEPT !.data.kids =
                     (k :> Bind(Value(Unbound, Default, Null), v.data.bind))
                     @@ @], v.data.bind)

Erase(v, k) ==
    IF k \notin DOMAIN v.data.kids THEN Silent(v)
    ELSE Result([v EXCEPT !.data.kids = Restrict(@, DOMAIN @ \ {k})],
                v.data.bind)
Clear(v) ==
    IF DOMAIN v.data.kids = {} THEN Silent(v)
    ELSE Result([v EXCEPT !.data.kids = << >>], v.data.bind)

(* vector: push_back of a copy or of a moved value, erase, reserve.        *)
Append1(v, elem) == [v EXCEPT !.data.kids = Append(@, Bind(elem, v.data.bind))]
PushCopy(v, elem) == Result(Append1(v, Copied(elem)), v.data.bind)
PushMove(v, elem) == Result(Append1(v, elem), v.data.bind)
(* erase(begin()): each element is move-assigned from the one behind it.   *)
PopFront(v) ==
    LET shifted == [i \in 1 .. Len(v.data.kids) - 1 |->
                       MoveAssign(v.data.kids[i], v.data.kids[i + 1]).node]
    IN  Result([v EXCEPT !.data.kids = BindAll(shifted, v.data.bind)],
               v.data.bind)
Reserve(v) ==
    Result([v EXCEPT !.data.kids = BindAll(@, v.data.bind)], v.data.bind)

(* string: assignment and clear, which notify of a change only; append,    *)
(* push_back and erase, which notify in any case.                          *)
SetText(v, size) ==
    IF v.data.size = size THEN Silent(v)
    ELSE Result([v EXCEPT !.data.size = size], v.data.bind)
EditText(v, size) == Result([v EXCEPT !.data.size = size], v.data.bind)

-----------------------------------------------------------------------------
(* Locations an operation can be applied to: a node of a working root of   *)
(* the transaction at an address, or the value held by the application.    *)

HasImpl(a) == tx[a].state = "impl"
Active(a) == HasImpl(a) /\ tx[a].active
Locations ==
    UNION {UNION {{[at |-> a, token |-> i, path |-> p] :
                     p \in Paths(tx[a].roots[i].data)} :
                  i \in DOMAIN tx[a].roots} : a \in {b \in Addresses : Active(b)}}
    \cup (IF held = Nothing THEN {}
          ELSE {[at |-> 0, token |-> 0, path |-> << >>]})
NodeAt(l) == IF l.at = 0 THEN held
             ELSE At(tx[l.at].roots[l.token].data, l.path)

(* Seeded fault for Notified: an event dirties the first root.             *)
NotifiedFirst(objects, b) ==
    IF b.observer # 0 /\ objects[b.observer].state = "impl"
       /\ objects[b.observer].active /\ b.root \in DOMAIN objects[b.observer].roots
    THEN [objects EXCEPT ![b.observer].roots[1].dirty = TRUE]
    ELSE objects

(* observable::notify and transaction::changed.                            *)
Notified(objects, b) ==
    IF b.observer # 0 /\ objects[b.observer].state = "impl"
       /\ objects[b.observer].active /\ b.root \in DOMAIN objects[b.observer].roots
    THEN [objects EXCEPT ![b.observer].roots[b.root].dirty = TRUE]
    ELSE objects

Written(objects, l, node) ==
    IF l.at = 0 THEN objects
    ELSE [objects EXCEPT ![l.at].roots[l.token].data = Put(@, l.path, node)]

Apply(l, result) ==
    /\ edits < MaxEdits
    /\ edits' = edits + 1
    /\ tx' = Notified(Written(tx, l, result.node), result.via)
    /\ held' = IF l.at = 0 THEN result.node ELSE held
    /\ (IF l.at = 0 THEN Fits(held') ELSE Fits(tx'[l.at].roots[l.token].data))
    /\ UNCHANGED <<store, begun>>

(* The observer of a node still exists; otherwise an edit is undefined.    *)
Observers(l) == LET o == NodeAt(l).bind.observer
                IN  o # 0 => tx[o].state # "none"

EditValue(l) ==
    /\ Observers(l)
    /\ \/ \E n \in Numbers : Apply(l, AssignScalar(NodeAt(l), Scalar(n)))
       \/ Apply(l, AssignScalar(NodeAt(l), Null))
       \/ \E size \in 0 .. MaxText : Apply(l, AssignText(NodeAt(l), size))
       \/ Apply(l, AsString(NodeAt(l)))
       \/ Apply(l, AsArray(NodeAt(l)))
       \/ Apply(l, AsObject(NodeAt(l)))

EditObject(l) ==
    LET v == NodeAt(l)
    IN  /\ v.data.kind = "object" /\ ~ Gone(v.data) /\ Observers(l)
        /\ \/ \E k \in Keys : Apply(l, Index(v, k)) \/ Apply(l, Erase(v, k))
           \/ Apply(l, Clear(v))

EditArray(l) ==
    LET v == NodeAt(l)
    IN  /\ v.data.kind = "array" /\ ~ Gone(v.data) /\ Observers(l)
        /\ \/ /\ Len(v.data.kids) < MaxSize
              /\ \E n \in Numbers :
                    Apply(l, PushMove(v, Value(Unbound, Default, Scalar(n))))
           \/ v.data.kids # << >> /\ Apply(l, PopFront(v))
           \/ Apply(l, Reserve(v)) \/ Apply(l, Clear(v))

EditString(l) ==
    /\ NodeAt(l).data.kind = "string" /\ Observers(l)
    /\ \E size \in 0 .. MaxText : \/ Apply(l, SetText(NodeAt(l), size))
                                  \/ Apply(l, EditText(NodeAt(l), size))

(* The application copies the held value into a tree.                      *)
CopyIn(l) ==
    LET v == NodeAt(l)
    IN  /\ held # Nothing /\ l.at # 0 /\ Sound(held) /\ Observers(l)
        /\ \/ Apply(l, CopyAssign(v, held))
           \/ /\ v.data.kind = "array" /\ ~ Gone(v.data)
              /\ Len(v.data.kids) < MaxSize
              /\ Apply(l, PushCopy(v, held))

(* ... or moves it there (the held value is spent).                        *)
MoveIn(l) ==
    /\ held # Nothing /\ l.at # 0 /\ Observers(l)
    /\ edits < MaxEdits /\ edits' = edits + 1
    /\ LET r == MoveAssign(NodeAt(l), held)
       IN  tx' = Notified(Written(tx, l, r.node), r.via)
    /\ Fits(tx'[l.at].roots[l.token].data)
    /\ held' = Nothing
    /\ UNCHANGED <<store, begun>>

(* value copy = node;                                                      *)
CopyOut(l) ==
    /\ "copy_out" \in Uses
    /\ held = Nothing /\ l.at # 0 /\ Sound(NodeAt(l))
    /\ held' = Copied(NodeAt(l))
    /\ UNCHANGED <<tx, store, begun, edits>>

(* What the defaulted move constructor of value takes out of a node: the   *)
(* node's binding; a container as it is; a string without its binding.     *)
Taken(v) == IF v.data.kind = "string" THEN [v EXCEPT !.data.bind = Unbound] ELSE v

(* ... and what it leaves there: a null pointer, or an empty string.       *)
Left(v) ==
    IF IsContainer(v.data)
    THEN [v EXCEPT !.data.kids = << >>, !.data.gone = TRUE]
    ELSE IF v.data.kind = "string" THEN [v EXCEPT !.data.size = 0]
    ELSE v

(* value taken = std::move(node); no event is sent.                        *)
MoveOut(l) ==
    LET v == NodeAt(l)
        emptied == v.data.kind = "string" /\ v.data.size > 0
    IN  /\ "move_out" \in Uses
        /\ held = Nothing /\ l.at # 0 /\ ~ Gone(v.data)
        /\ held' = Taken(v)
        /\ tx' = [Written(tx, l, Left(v)) EXCEPT
                     ![l.at].roots[l.token].emptied = @ \/ emptied]
        /\ UNCHANGED <<store, begun, edits>>

-----------------------------------------------------------------------------
(* transaction                                                             *)

TreeInit ==
    /\ tx = [a \in Addresses |-> NoObject]
    /\ store \in [Names -> {[version |-> 0, content |-> Null]}
                           \cup {[version |-> 1, content |-> c] : c \in Committed}]
    /\ held = Nothing
    /\ begun = 0 /\ edits = 0

Begin(a) ==
    /\ begun < MaxTx
    /\ tx[a] = NoObject
    /\ begun' = begun + 1
    /\ tx' = [tx EXCEPT ![a] = [state |-> "impl", pool |-> begun + 1,
                                active |-> TRUE, roots |-> << >>]]
    /\ UNCHANGED <<store, held, edits>>

Opened(a, n) == \E i \in DOMAIN tx[a].roots : tx[a].roots[i].name = n

(* root() on first access: load, decode into the pool, bind.               *)
Root(a, n) ==
    LET at == store[n]
        token == Len(tx[a].roots) + 1
        data == Bind(Loaded(at.content, tx[a].pool),
                     [observer |-> a, root |-> token])
    IN  /\ Active(a)
        /\ ~ Opened(a, n)
        /\ tx' = [tx EXCEPT ![a].roots =
              Append(@, [name |-> n, expected |-> at.version,
                         dirty |-> at.version = 0, data |-> data,
                         loaded |-> at.content, emptied |-> FALSE,
                         stray |-> FALSE])]
        /\ UNCHANGED <<store, held, begun, edits>>

WriteSet(a) == {i \in DOMAIN tx[a].roots : tx[a].roots[i].dirty}

(* commit(): what is not dirty is not written; a conflict changes nothing. *)
CommitTx(a) ==
    /\ Active(a)
    /\ \A i \in WriteSet(a) : Sound(tx[a].roots[i].data)
    /\ \A i \in WriteSet(a) :
          store[tx[a].roots[i].name].version = tx[a].roots[i].expected
    /\ store' = [n \in Names |->
          IF \E i \in WriteSet(a) : tx[a].roots[i].name = n
          THEN LET i == CHOOSE i \in WriteSet(a) : tx[a].roots[i].name = n
               IN  [version |-> store[n].version + 1,
                    content |-> Plain(tx[a].roots[i].data)]
          ELSE store[n]]
    /\ tx' = [tx EXCEPT ![a].active = FALSE]
    /\ UNCHANGED <<held, begun, edits>>

(* abort(): the working copies stay until the object is destroyed.         *)
Abort(a) ==
    /\ Active(a)
    /\ tx' = [tx EXCEPT ![a].active = FALSE]
    /\ UNCHANGED <<store, held, begun, edits>>

(* The destructor: the working copies and the pool are gone.               *)
Destroy(a) ==
    /\ tx[a] # NoObject
    /\ tx' = [tx EXCEPT ![a] = NoObject]
    /\ UNCHANGED <<store, held, begun, edits>>

(* The defaulted move: only impl_, and the pool in it, changes hands; the  *)
(* open roots stay bound to the address they were opened at.               *)
MoveTransaction(a, b) ==
    /\ "move_transaction" \in Uses
    /\ a # b /\ HasImpl(a) /\ tx[b].state # "impl"
    /\ tx' = [tx EXCEPT
          ![b] = [tx[a] EXCEPT !.roots = [i \in DOMAIN @ |->
                                            [@[i] EXCEPT !.stray = TRUE]]],
          ![a] = MovedFrom]
    /\ UNCHANGED <<store, held, begun, edits>>

TreeNext ==
    \/ \E a \in Addresses :
          \/ Begin(a) \/ CommitTx(a) \/ Abort(a) \/ Destroy(a)
          \/ \E n \in Names : Root(a, n)
          \/ \E b \in Addresses : MoveTransaction(a, b)
    \/ \E l \in Locations :
          \/ EditValue(l) \/ EditObject(l) \/ EditArray(l) \/ EditString(l)
          \/ CopyIn(l) \/ MoveIn(l) \/ CopyOut(l) \/ MoveOut(l)

TreeSpec == TreeInit /\ [][TreeNext]_tvars

-----------------------------------------------------------------------------
Working == UNION {{[at |-> a, token |-> i, entry |-> tx[a].roots[i]] :
                     i \in DOMAIN tx[a].roots} :
                  a \in {b \in Addresses : HasImpl(b)}}
MemoryOf(v) == {n.data.res : n \in {m \in Nodes(v) : IsContainer(m.data)
                                                     \/ m.data.kind = "string"}}

(* No lost update: a working root whose content differs from what was      *)
(* loaded is dirty, whatever sequence of conversions, insertions, moves    *)
(* and copies changed it and at whatever depth (transaction::changed).     *)
(* Two things escape the observer in the code and are excepted: a string   *)
(* moved out of the tree, which is left empty without an event             *)
(* (value(value&&)), and edits of a root whose transaction was moved since *)
(* it was opened, whose events go to the object left behind.               *)
Changed(w) == Sound(w.entry.data) /\ Plain(w.entry.data) # w.entry.loaded
DirtyComplete ==
    \A w \in Working :
        tx[w.at].active /\ ~ w.entry.stray /\ ~ w.entry.emptied /\ Changed(w)
            => w.entry.dirty

(* Every node of a working root, container and string in it included, is   *)
(* bound to its own transaction and root (value::bind, rebind_all).        *)
BindingsOf(v) == {n.bind : n \in Nodes(v)}
    \cup {n.data.bind : n \in {m \in Nodes(v) : m.data.kind = "string"
                               \/ (IsContainer(m.data) /\ ~ Gone(m.data))}}
BoundTogether ==
    \A w \in Working : ~ w.entry.stray =>
        BindingsOf(w.entry.data) = {[observer |-> w.at, root |-> w.token]}

(* Containers and strings of a working root live in the pool of their own  *)
(* transaction (docs/SRS.md, section 6).  The code keeps to it only where  *)
(* map::operator[] inserts nothing and no copy of another transaction's    *)
(* value is assigned.                                                      *)
OwnMemory == \A w \in Working : MemoryOf(w.entry.data) \subseteq {tx[w.at].pool}
=============================================================================
