-------------------------- MODULE LobbyDataProofs --------------------------
(***************************************************************************)
(* Safety of the lobby's data, for any keys, strings and numbers, and for  *)
(* every width of int64_t and of doubles for which LobbyDataAssumption     *)
(* holds.                                                                  *)
(*                                                                         *)
(* The conversions come first: one lemma says all that the rest needs.     *)
(* The invariant then follows an object through the loop, the modification *)
(* on its way, and the rows: at each place the data is faithful to the     *)
(* JavaScript values it was made of, name by name.                         *)
(***************************************************************************)
EXTENDS LobbyData, FiniteSetTheorems, TLAPS

-----------------------------------------------------------------------------
(* The conversions.                                                        *)

LEMMA NumbersAreInts == Numbers \subseteq Int
<1> SUFFICES ASSUME NEW n \in Numbers PROVE n \in Int
  OBVIOUS
<1>1. CASE n \in Magnitudes
  BY <1>1, LobbyDataAssumption
<1>2. CASE n \in {-k : k \in Magnitudes}
  <2>1. PICK k \in Magnitudes : n = -k
    BY <1>2
  <2>2. k \in Int
    BY LobbyDataAssumption
  <2> QED
    BY <2>1, <2>2
<1> QED
  BY <1>1, <1>2 DEF Numbers

LEMMA CastIntegerInRange ==
  ASSUME NEW n \in Int, NEW c \in CastInteger(n)
  PROVE  c \in IntMin..IntMax
<1>1. IntMin \in Int /\ IntMax \in Int /\ IntMin < 0 /\ 0 < IntMax
  BY LobbyDataAssumption
<1>2. CASE n > IntMax \/ n < IntMin
  BY <1>1, <1>2 DEF CastInteger
<1>3. CASE ~(n > IntMax) /\ ~(n < IntMin)
  BY <1>1, <1>3 DEF CastInteger
<1> QED
  BY <1>2, <1>3

\* The casts of a number stay in the range of int64_t.
LEMMA CastInRange ==
  ASSUME NEW v \in JsValues, NEW c \in Casts(v)
  PROVE  c \in IntMin..IntMax
<1> DEFINE min == IntMin
           max == IntMax
<1>1. min \in Int /\ max \in Int /\ min < 0 /\ 0 < max
  BY LobbyDataAssumption
<1>2. CASE v \in {"integer"} \X Numbers
  <2>1. v[2] \in Int /\ c \in CastInteger(v[2])
    BY <1>2, NumbersAreInts DEF Casts
  <2> QED
    BY <2>1, CastIntegerInRange
<1>3. CASE v \in {"real"} \X Reals
  <2>1. v[1] = "real" /\ v[2] \in RealNames
    BY <1>3, LobbyDataAssumption
  <2>2. c \in CastReal[v[2]]
    BY <2>1 DEF Casts
  <2>3. c \in {0, min, max}
    BY <2>1, <2>2 DEF CastReal, RealNames, min, max
  <2> HIDE DEF min, max
  <2>4. c \in min..max
    BY <2>3, <1>1
  <2> QED
    BY <2>4 DEF min, max
<1>4. CASE v \notin JsNumbers
  BY <1>4 DEF Casts, JsValues, JsNumbers
<1> QED
  BY <1>2, <1>3, <1>4 DEF JsNumbers

\* What is known of an attribute d made of the value v.
Represents(d, v) ==
  /\ d \in AttributeData
  /\ AttributeToJs(d) \in JsReads
  /\ SameValue(Converted(v), AttributeToJs(d))
  /\ d[1] = "AT_INT64" =>
       \/ SameValue(v, <<"integer", d[2]>>)
       \/ v = <<"integer", IntMax + 1>> /\ d[2] = IntMax

\* An integer that the cast gives back is the number itself, up to 2^63.
LEMMA IntegerExact ==
  ASSUME NEW n \in Numbers, NEW c \in CastInteger(n), Nearest(c) = n
  PROVE  c = n \/ (c = IntMax /\ n = IntMax + 1)
<1>1. CASE n > IntMax
  <2>1. n # IntMin /\ Nearest(IntMin) = IntMin /\ Nearest(IntMax) = IntMax + 1
    BY <1>1, LobbyDataAssumption DEF Numbers
  <2> QED
    BY <1>1, <2>1 DEF CastInteger
<1>2. CASE n < IntMin
  <2>1. n \in Int /\ IntMin \in Int /\ IntMax \in Int /\ IntMin < IntMax
    BY LobbyDataAssumption, NumbersAreInts
  <2>2. c = IntMin
    BY <1>2, <2>1 DEF CastInteger
  <2>3. Nearest(IntMin) = IntMin
    BY LobbyDataAssumption
  <2> QED
    BY <2>2, <2>3
<1>3. CASE ~(n > IntMax) /\ ~(n < IntMin)
  BY <1>3 DEF CastInteger
<1> QED
  BY <1>1, <1>2, <1>3

LEMMA NumberRepresents ==
  ASSUME NEW v \in JsNumbers, NEW c \in Casts(v)
  PROVE  Represents(NumberToAttribute(v, c), v)
<1>1. c \in IntMin..IntMax
  BY CastInRange DEF JsValues
<1>0. Converted(v) = v
  BY DEF Converted, JsNumbers
<1>2. CASE ~SameNumber(v, ToDouble(c))
  <2>1. NumberToAttribute(v, c) = <<"AT_DOUBLE", v>>
    BY <1>2 DEF NumberToAttribute
  <2>2. AttributeToJs(<<"AT_DOUBLE", v>>) = v
    BY DEF AttributeToJs
  <2>3. <<"AT_DOUBLE", v>> \in AttributeData
    BY DEF AttributeData
  <2> QED
    BY <1>0, <2>1, <2>2, <2>3 DEF Represents, SameValue, JsValues, JsReads
<1>3. CASE SameNumber(v, ToDouble(c))
  <2>1. NumberToAttribute(v, c) = <<"AT_INT64", c>>
    BY <1>3 DEF NumberToAttribute
  <2>2. AttributeToJs(<<"AT_INT64", c>>) = ToDouble(c)
    BY DEF AttributeToJs
  <2>3. <<"AT_INT64", c>> \in AttributeData
    BY <1>1 DEF AttributeData
  <2>4. CASE v = ToDouble(c)
    <3>1. v[1] = "integer" /\ v[2] = Nearest(c) /\ v[2] \in Numbers
      BY <2>4 DEF ToDouble, JsNumbers
    <3>2. c \in CastInteger(v[2])
      BY <3>1 DEF Casts
    <3>3. c = v[2] \/ (c = IntMax /\ v[2] = IntMax + 1)
      BY <3>1, <3>2, IntegerExact
    <3>4. v = <<"integer", v[2]>>
      BY <2>4, <3>1 DEF ToDouble
    <3> QED
      BY <1>0, <2>1, <2>2, <2>3, <2>4, <3>3, <3>4
         DEF Represents, SameValue, JsValues, JsReads
  <2>5. CASE v = <<"real", "MinusZero">> /\ ToDouble(c) = <<"integer", 0>>
    <3>1. c = 0
      BY <2>5 DEF Casts, CastReal
    <3> QED
      BY <1>0, <2>1, <2>2, <2>3, <2>5, <3>1
         DEF Represents, SameValue, JsValues, JsReads
  <2> QED
    BY <1>3, <2>4, <2>5 DEF SameNumber
<1> QED
  BY <1>2, <1>3

\* All that the invariant needs to know of JsToAttribute and AttributeToJs.
LEMMA AttributeRepresents ==
  ASSUME NEW v \in JsValues, NEW d \in JsToAttribute(v)
  PROVE  Represents(d, v)
<1>1. CASE v \in JsNumbers
  BY <1>1, NumberRepresents DEF JsToAttribute, JsNumbers
<1>2. CASE v \in {"boolean"} \X BOOLEAN
  <2>1. v[1] = "boolean" /\ v = <<"boolean", v[2]>> /\ v[2] \in BOOLEAN
    BY <1>2
  <2>2. d = <<"AT_BOOLEAN", v[2]>>
    BY <2>1 DEF JsToAttribute
  <2>3. AttributeToJs(d) = v /\ d[1] # "AT_INT64" /\ Converted(v) = v
    BY <2>1, <2>2 DEF AttributeToJs, Converted
  <2>4. d \in AttributeData
    BY <2>1, <2>2 DEF AttributeData
  <2> QED
    BY <2>3, <2>4 DEF Represents, SameValue, JsReads
<1>3. CASE v \in {"string"} \X Strings
  <2>1. v[1] = "string" /\ v = <<"string", v[2]>> /\ v[2] \in Strings
    BY <1>3
  <2>2. d = <<"AT_STRING", CString(v[2])>>
    BY <2>1 DEF JsToAttribute
  <2>3. AttributeToJs(d) = Converted(v) /\ d[1] # "AT_INT64"
    BY <2>1, <2>2 DEF AttributeToJs, Converted
  <2>4. d \in AttributeData /\ Converted(v) \in JsReads
    BY <2>1, <2>2 DEF AttributeData, Converted, JsReads
  <2> QED
    BY <2>3, <2>4 DEF Represents, SameValue
<1>4. CASE v = <<"object", "object">>
  BY <1>4 DEF JsToAttribute, Casts
<1> QED
  BY <1>1, <1>2, <1>3, <1>4 DEF JsValues

LEMMA UnsetIsNoValue ==
  /\ Unset \notin AttributeData
  /\ Unset \notin JsValues \cup JsReads
  /\ JsToAttribute(Unset) = {}
  /\ \A v \in JsValues \cup {Unset} : Unset \notin JsToAttribute(v)
<1>1. Unset \notin AttributeData /\ Unset \notin JsValues \cup JsReads
  BY DEF Unset, AttributeData, JsValues, JsNumbers, JsReads
<1>2. JsToAttribute(Unset) = {}
  BY DEF JsToAttribute, Casts, Unset
<1> QED
  BY <1>1, <1>2, AttributeRepresents DEF Represents

-----------------------------------------------------------------------------
(* The invariant.                                                          *)

\* The attributes d are made of the values o, name by name.
Faithful(o, d) ==
  \A n \in Names : IF o[n] = Unset THEN d[n] = Unset ELSE d[n] \in JsToAttribute(o[n])

\* The vector has room for the keys and values of what is left of the loop.
Room ==
  call = "set" => storage.size + 2 * Cardinality(todo) <= storage.capacity

SetProgress ==
  IF call = "set"
  THEN /\ todo \subseteq KeysOf(attributes)
       /\ Faithful(given, modification)
       /\ KeysOf(modification) = {CString(k) : k \in KeysOf(attributes) \ todo}
  ELSE modification = Nothing /\ given = Nothing

ReadProgress ==
  IF call = "getAttributes"
  THEN /\ todo \subseteq KeysOf(stored[scope])
       /\ \A n \in Names :
            result[n] # Unset =>
              /\ n \in KeysOf(stored[scope])
              /\ result[n] = AttributeToJs(stored[scope][n])
  ELSE result = Nothing

\* The update u is faithful and whole.
Whole(u) ==
  /\ Faithful(u.given, u.data)
  /\ KeysOf(u.data) = {CString(k) : k \in KeysOf(u.object)}

RowsFaithful ==
  /\ \A u \in updates : Whole(u)
  /\ \A row \in Rows : Faithful(written[row], stored[row])

LobbyInv ==
  /\ LobbyTypeOK
  /\ Room
  /\ NoDanglingPointers
  /\ SetProgress
  /\ ReadProgress
  /\ RowsFaithful
  /\ HandlesReleased

LEMMA KeysOfObjects ==
  /\ \A o \in JsObjects : KeysOf(o) = {k \in Keys : o[k] # Unset}
  /\ \A o \in Values : KeysOf(o) = {n \in Names : o[n] # Unset}
  /\ \A d \in Modifications : KeysOf(d) = {n \in Names : d[n] # Unset}
  /\ \A k \in Keys : CString(k) \in Names
  BY DEF KeysOf, JsObjects, Values, Modifications, Names

LEMMA NothingTypes ==
  /\ NoObject \in JsObjects
  /\ Nothing \in Modifications /\ Nothing \in Values
  /\ Nothing \in [Names -> JsReads \cup {Unset}]
  /\ \A n \in Names : Nothing[n] = Unset
  /\ KeysOf(Nothing) = {}
  /\ Faithful(Nothing, Nothing)
  BY DEF Nothing, NoObject, JsObjects, Modifications, Values, KeysOf, Faithful

LEMMA LobbyInitInv == Init => LobbyInv
<1> SUFFICES ASSUME Init PROVE LobbyInv
  OBVIOUS
<1>1. LobbyTypeOK
  BY NothingTypes DEF Init, LobbyTypeOK, Calls, Rows, Handles
<1>2. RowsFaithful
  BY NothingTypes DEF Init, RowsFaithful
<1>3. Room /\ NoDanglingPointers /\ SetProgress /\ ReadProgress /\ HandlesReleased
  BY DEF Init, Room, NoDanglingPointers, SetProgress, ReadProgress, HandlesReleased
<1> QED
  BY <1>1, <1>2, <1>3 DEF LobbyInv

\* A call that returns leaves what is said of calls true.
LEMMA ReturnInv ==
  ASSUME LobbyInv, Return, writes' \in Nat, dangling' = FALSE,
         UNCHANGED <<stored, written>>,
         updates' \subseteq [row : Rows, object : JsObjects, given : Values,
                             data : Modifications],
         \A u \in updates' : Whole(u)
  PROVE  LobbyInv'
<1> USE DEF LobbyInv
<1>1. held' \subseteq Handles /\ HandlesReleased'
  BY DEF Return, Unwind, LobbyTypeOK, HandlesReleased, Handles
<1>2. LobbyTypeOK'
  BY <1>1, NothingTypes DEF Return, Unwind, LobbyTypeOK, Calls, Rows
<1>3. RowsFaithful'
  BY DEF RowsFaithful
<1>4. Room' /\ NoDanglingPointers' /\ SetProgress' /\ ReadProgress'
  BY DEF Return, Unwind, Room, NoDanglingPointers, SetProgress, ReadProgress
<1> QED
  BY <1>1, <1>2, <1>3, <1>4

LEMMA KeysFinite ==
  ASSUME NEW S, S \subseteq Keys
  PROVE  IsFiniteSet(S) /\ Cardinality(S) \in Nat
  BY LobbyDataAssumption, FS_Subset, FS_CardinalityType

LEMMA StartSetInv ==
  ASSUME LobbyInv, NEW row \in Rows, NEW object \in JsObjects,
         StartSet(row, object)
  PROVE  LobbyInv'
<1> USE DEF LobbyInv
<1>1. KeysOf(object) \subseteq Keys
  BY KeysOfObjects
<1>2. Cardinality(KeysOf(object)) \in Nat
  BY <1>1, KeysFinite
<1>3. LobbyTypeOK'
  <2>1. storage' \in [size : Nat, capacity : Nat]
    BY <1>2 DEF StartSet, Reserved
  <2>2. held' \subseteq Handles /\ call' \in Calls /\ scope' \in Rows
    BY DEF StartSet, LobbyTypeOK, Handles, Calls
  <2>3. attributes' \in JsObjects /\ todo' \subseteq Keys /\ writes' \in Nat
    BY <1>1 DEF StartSet, LobbyTypeOK
  <2>4. UNCHANGED <<modification, given, result, dangling, updates, stored,
                    written>>
    BY DEF StartSet, serviceVars
  <2> QED
    BY <2>1, <2>2, <2>3, <2>4 DEF LobbyTypeOK
<1>4. Room'
  BY <1>2 DEF StartSet, Room, Reserved
<1>5. modification = Nothing /\ given = Nothing /\ result = Nothing
  BY DEF StartSet, SetProgress, ReadProgress
<1>6. KeysOf(object) \ KeysOf(object) = {}
  OBVIOUS
<1>7. SetProgress' /\ ReadProgress'
  BY <1>5, <1>6, NothingTypes DEF StartSet, SetProgress, ReadProgress
<1>8. RowsFaithful' /\ NoDanglingPointers' /\ HandlesReleased'
  BY DEF StartSet, RowsFaithful, NoDanglingPointers, HandlesReleased, serviceVars
<1> QED
  BY <1>3, <1>4, <1>7, <1>8

\* While an attribute is left, its key and its string find room.
LEMMA KeyStays ==
  ASSUME LobbyInv, call = "set", NEW key \in todo
  PROVE  /\ ~KeyMoves(key)
         /\ Cardinality(todo \ {key}) = Cardinality(todo) - 1
         /\ Cardinality(todo) \in Nat
         /\ Pushes(key, storage) \in [size : Nat, capacity : Nat]
         /\ Pushes(key, storage).size <= storage.size + 2
         /\ Pushes(key, storage).capacity = storage.capacity
<1>0. todo \subseteq Keys
  BY KeysOfObjects DEF LobbyInv, LobbyTypeOK, SetProgress
<1>1. /\ IsFiniteSet(todo) /\ Cardinality(todo) \in Nat
      /\ storage.size \in Nat /\ storage.capacity \in Nat
  BY <1>0, KeysFinite DEF LobbyInv, LobbyTypeOK
<1>2. Cardinality(todo \ {key}) = Cardinality(todo) - 1
  BY <1>1, FS_RemoveElement
<1>3. Cardinality(todo \ {key}) \in Nat
  BY <1>0, KeysFinite
<1>4. storage.size + 2 <= storage.capacity
  BY <1>1, <1>2, <1>3 DEF LobbyInv, Room
<1>5. Pushed(storage) = [size |-> storage.size + 1, capacity |-> storage.capacity]
  BY <1>1, <1>4 DEF Pushed
<1>6. Pushed(Pushed(storage)) =
        [size |-> storage.size + 2, capacity |-> storage.capacity]
  BY <1>1, <1>4, <1>5 DEF Pushed
<1> QED
  BY <1>1, <1>2, <1>4, <1>5, <1>6 DEF KeyMoves, Pushes

LEMMA AddsInv ==
  ASSUME LobbyInv, NEW key \in todo, call = "set", Adds(key),
         UNCHANGED <<dangling, serviceVars, writes>>
  PROVE  LobbyInv'
<1> USE DEF LobbyInv
<1>1. PICK data \in JsToAttribute(attributes[key]) :
        modification' = [modification EXCEPT ![CString(key)] = data]
  BY DEF Adds
<1>2. /\ key \in Keys /\ attributes[key] \in JsValues /\ attributes[key] # Unset
      /\ CString(key) \in Names /\ key \in KeysOf(attributes)
  BY KeysOfObjects DEF LobbyTypeOK, JsObjects, SetProgress
<1>3. data \in AttributeData /\ data # Unset
  BY <1>2, AttributeRepresents, UnsetIsNoValue DEF Represents
<1>4. LobbyTypeOK'
  <2>1. modification' \in Modifications
    BY <1>1, <1>2, <1>3 DEF LobbyTypeOK, Modifications
  <2>2. given' \in Values
    BY <1>2 DEF Adds, LobbyTypeOK, Values
  <2>3. storage' \in [size : Nat, capacity : Nat] /\ todo' \subseteq Keys \cup Names
    BY KeyStays DEF Adds, LobbyTypeOK
  <2> QED
    BY <2>1, <2>2, <2>3 DEF Adds, LobbyTypeOK, serviceVars
<1>5. Room'
  <2>1. todo' = todo \ {key} /\ storage' = Pushes(key, storage)
    BY DEF Adds
  <2>2. /\ storage'.size \in Nat /\ storage'.size <= storage.size + 2
        /\ storage'.capacity = storage.capacity
    BY <2>1, KeyStays
  <2>3. Cardinality(todo') = Cardinality(todo) - 1 /\ Cardinality(todo) \in Nat
    BY <2>1, KeyStays
  <2>4. storage.size + 2 * Cardinality(todo) <= storage.capacity
    BY DEF Room
  <2>5. storage.size \in Nat /\ storage.capacity \in Nat
    BY DEF LobbyTypeOK
  <2> QED
    BY <2>2, <2>3, <2>4, <2>5 DEF Room
<1>6. SetProgress'
  <2>1. \A n \in Names :
          /\ modification'[n] = IF n = CString(key) THEN data ELSE modification[n]
          /\ given'[n] = IF n = CString(key) THEN attributes[key] ELSE given[n]
    BY <1>1 DEF Adds, LobbyTypeOK, Modifications, Values
  <2>2. Faithful(given', modification')
    BY <1>2, <2>1 DEF SetProgress, Faithful
  <2>3. KeysOf(modification') = KeysOf(modification) \cup {CString(key)}
    BY <1>2, <1>3, <1>4, <2>1, KeysOfObjects DEF LobbyTypeOK
  <2>4. {CString(k) : k \in KeysOf(attributes) \ (todo \ {key})} =
          {CString(k) : k \in KeysOf(attributes) \ todo} \cup {CString(key)}
    BY <1>2
  <2> QED
    BY <2>2, <2>3, <2>4 DEF Adds, SetProgress
<1>7. ReadProgress' /\ RowsFaithful' /\ NoDanglingPointers' /\ HandlesReleased'
  BY DEF Adds, ReadProgress, RowsFaithful, NoDanglingPointers, HandlesReleased,
         serviceVars
<1> QED
  BY <1>4, <1>5, <1>6, <1>7

LEMMA AddAttributeInv ==
  ASSUME LobbyInv, NEW key \in Keys, AddAttribute(key)
  PROVE  LobbyInv'
<1>1. call = "set" /\ key \in todo /\ UNCHANGED <<serviceVars, writes>>
  BY DEF AddAttribute
<1>2. dangling' = dangling /\ dangling' = FALSE
  BY <1>1, KeyStays DEF AddAttribute, Throws, LobbyInv, LobbyTypeOK, NoDanglingPointers
<1>3. CASE Throws(key) \/ AddFails(key)
  BY <1>1, <1>2, <1>3, ReturnInv
     DEF Throws, AddFails, serviceVars, LobbyInv, LobbyTypeOK, RowsFaithful
<1>4. CASE Adds(key)
  BY <1>1, <1>2, <1>4, AddsInv
<1> QED
  BY <1>3, <1>4 DEF AddAttribute

LEMMA UpdateLobbyInv ==
  ASSUME LobbyInv, UpdateLobby
  PROVE  LobbyInv'
<1> DEFINE u == [row |-> scope, object |-> attributes, given |-> given,
                 data |-> modification]
<1>1. u \in [row : Rows, object : JsObjects, given : Values, data : Modifications]
  BY DEF LobbyInv, LobbyTypeOK
<1>2. KeysOf(attributes) \ {} = KeysOf(attributes)
  OBVIOUS
<1>3. Whole(u)
  BY <1>2 DEF LobbyInv, SetProgress, UpdateLobby, Whole
<1>4. updates' = updates \cup {u}
  BY DEF UpdateLobby
<1> HIDE DEF u
<1> QED
  BY <1>1, <1>3, <1>4, ReturnInv
     DEF UpdateLobby, LobbyInv, LobbyTypeOK, NoDanglingPointers, RowsFaithful

\* What an update leaves of a row is as faithful as the two were.
Overlay(p, o) == [n \in Names |-> IF n \in KeysOf(p) THEN p[n] ELSE o[n]]

\* Faithful attributes are set where their values are.
LEMMA FaithfulKeys ==
  ASSUME NEW o \in Values, NEW d \in Modifications, Faithful(o, d)
  PROVE  /\ KeysOf(d) = KeysOf(o)
         /\ \A n \in KeysOf(o) : d[n] \in JsToAttribute(o[n]) /\ o[n] # Unset
<1>1. \A n \in Names : d[n] = Unset <=> o[n] = Unset
  BY UnsetIsNoValue DEF Faithful, Values
<1> QED
  BY <1>1, KeysOfObjects DEF Faithful

LEMMA OverlayFaithful ==
  ASSUME NEW o, NEW d, NEW p \in Values, NEW e \in Modifications, Faithful(o, d),
         Faithful(p, e)
  PROVE  Faithful(Overlay(p, o), Overlay(e, d))
  BY FaithfulKeys DEF Faithful, Overlay

LEMMA OverlayTypes ==
  /\ \A p, o \in Values : Overlay(p, o) \in Values
  /\ \A p, o \in Modifications : Overlay(p, o) \in Modifications
  BY DEF Overlay, Values, Modifications

LEMMA UpdatedInv ==
  ASSUME LobbyInv, NEW u \in updates, Updated(u)
  PROVE  LobbyInv'
<1> USE DEF LobbyInv
<1>1. /\ call = "idle"
      /\ updates' = updates \ {u}
      /\ UNCHANGED <<call, scope, attributes, todo, modification, given,
                     result, storage, dangling, held, writes>>
  BY DEF Updated, callVars
<1>2. u.row \in Rows /\ u.given \in Values /\ u.data \in Modifications
  BY DEF LobbyTypeOK
<1>3. Faithful(u.given, u.data)
  BY DEF RowsFaithful, Whole
<1>4. \/ UNCHANGED <<stored, written>>
      \/ /\ stored' = [stored EXCEPT ![u.row] = Overlay(u.data, stored[u.row])]
         /\ written' = [written EXCEPT ![u.row] = Overlay(u.given, written[u.row])]
  BY DEF Updated, Overlay
<1>5. stored' \in [Rows -> Modifications] /\ written' \in [Rows -> Values]
  <2>1. stored \in [Rows -> Modifications] /\ written \in [Rows -> Values]
    BY DEF LobbyTypeOK
  <2>2. Overlay(u.data, stored[u.row]) \in Modifications
    BY <1>2, <2>1, OverlayTypes
  <2>3. Overlay(u.given, written[u.row]) \in Values
    BY <1>2, <2>1, OverlayTypes
  <2> QED
    BY <1>4, <2>1, <2>2, <2>3
<1>6. \A row \in Rows : Faithful(written'[row], stored'[row])
  <2> SUFFICES ASSUME NEW row \in Rows PROVE Faithful(written'[row], stored'[row])
    OBVIOUS
  <2>1. Faithful(written[row], stored[row])
    BY DEF RowsFaithful
  <2>2. CASE UNCHANGED <<stored, written>>
    BY <2>1, <2>2
  <2>3. CASE /\ stored' = [stored EXCEPT ![u.row] = Overlay(u.data, stored[u.row])]
             /\ written' = [written EXCEPT ![u.row] = Overlay(u.given, written[u.row])]
    <3>1. CASE row = u.row
      <4>1. /\ stored'[row] = Overlay(u.data, stored[row])
            /\ written'[row] = Overlay(u.given, written[row])
        BY <2>3, <3>1 DEF LobbyTypeOK
      <4> QED
        BY <4>1, <2>1, <1>2, <1>3, OverlayFaithful
    <3>2. CASE row # u.row
      <4>1. stored'[row] = stored[row] /\ written'[row] = written[row]
        BY <2>3, <3>2 DEF LobbyTypeOK
      <4> QED
        BY <4>1, <2>1
    <3> QED
      BY <3>1, <3>2
  <2> QED
    BY <1>4, <2>2, <2>3
<1>7. LobbyTypeOK'
  BY <1>1, <1>5 DEF LobbyTypeOK
<1>8. RowsFaithful'
  BY <1>1, <1>6 DEF RowsFaithful
<1>9. Room' /\ NoDanglingPointers' /\ SetProgress' /\ ReadProgress' /\ HandlesReleased'
  BY <1>1 DEF Room, NoDanglingPointers, SetProgress, ReadProgress, HandlesReleased
<1> QED
  BY <1>7, <1>8, <1>9

LEMMA StartReadInv ==
  ASSUME LobbyInv, NEW kind \in {"getAttributes", "getMembers", "getInfo"},
         NEW row \in Rows, StartRead(kind, row)
  PROVE  LobbyInv'
<1> USE DEF LobbyInv
<1>1. todo' \subseteq KeysOf(stored[row]) /\ KeysOf(stored[row]) \subseteq Names
  BY KeysOfObjects DEF StartRead, LobbyTypeOK
<1>2. UNCHANGED <<attributes, modification, given, result, storage, dangling,
                  updates, stored, written, writes>>
  BY DEF StartRead, serviceVars
<1>3. held' \subseteq Handles /\ call' = kind /\ scope' = row /\ call = "idle"
  BY DEF StartRead, LobbyTypeOK, Handles
<1>4. LobbyTypeOK'
  BY <1>1, <1>2, <1>3 DEF LobbyTypeOK, Calls
<1>5. modification = Nothing /\ given = Nothing /\ result = Nothing
  BY <1>3 DEF SetProgress, ReadProgress
<1>6. SetProgress' /\ ReadProgress'
  BY <1>1, <1>2, <1>3, <1>5, NothingTypes DEF SetProgress, ReadProgress
<1>7. RowsFaithful' /\ NoDanglingPointers' /\ HandlesReleased' /\ Room'
  BY <1>2, <1>3 DEF RowsFaithful, NoDanglingPointers, HandlesReleased, Room
<1> QED
  BY <1>4, <1>6, <1>7

LEMMA CopyAttributeInv ==
  ASSUME LobbyInv, NEW name \in Names, CopyAttribute(name)
  PROVE  LobbyInv'
<1> USE DEF LobbyInv
<1>1. /\ call = "getAttributes" /\ name \in todo /\ todo' = todo \ {name}
      /\ UNCHANGED <<call, scope, attributes, modification, given, storage,
                     dangling, updates, stored, written, writes>>
  BY DEF CopyAttribute, serviceVars
<1>2. held' \subseteq Handles
  BY DEF CopyAttribute, LobbyTypeOK, Handles
<1>3. name \in KeysOf(stored[scope])
  BY <1>1 DEF ReadProgress
<1>4. AttributeToJs(stored[scope][name]) \in JsReads
  <2>1. /\ Faithful(written[scope], stored[scope])
        /\ written[scope] \in Values /\ stored[scope] \in Modifications
    BY DEF RowsFaithful, LobbyTypeOK
  <2>2. /\ written[scope][name] \in JsValues
        /\ stored[scope][name] \in JsToAttribute(written[scope][name])
    BY <1>3, <2>1, FaithfulKeys DEF Values
  <2> QED
    BY <2>2, AttributeRepresents DEF Represents
<1>5. \/ result' = result
      \/ result' = [result EXCEPT ![name] = AttributeToJs(stored[scope][name])]
  BY DEF CopyAttribute
<1>6. LobbyTypeOK'
  BY <1>1, <1>2, <1>4, <1>5 DEF LobbyTypeOK
<1>7. ReadProgress'
  BY <1>1, <1>3, <1>5 DEF ReadProgress, LobbyTypeOK
<1>8. /\ SetProgress' /\ RowsFaithful' /\ NoDanglingPointers' /\ HandlesReleased'
      /\ Room'
  BY <1>1 DEF SetProgress, RowsFaithful, NoDanglingPointers, HandlesReleased, Room
<1> QED
  BY <1>6, <1>7, <1>8

LEMMA LobbyNextInv == LobbyInv /\ [Next]_vars => LobbyInv'
<1> SUFFICES ASSUME LobbyInv, [Next]_vars PROVE LobbyInv'
  OBVIOUS
<1>1. ASSUME NEW row \in Rows, NEW object \in JsObjects, StartSet(row, object)
      PROVE  LobbyInv'
  BY <1>1, StartSetInv
<1>2. ASSUME NEW key \in Keys, AddAttribute(key) PROVE LobbyInv'
  BY <1>2, AddAttributeInv
<1>3. ASSUME NEW name \in Names, CopyAttribute(name) PROVE LobbyInv'
  BY <1>3, CopyAttributeInv
<1>4. CASE UpdateLobby
  BY <1>4, UpdateLobbyInv
<1>5. ASSUME NEW u \in updates, Updated(u) PROVE LobbyInv'
  BY <1>5, UpdatedInv
<1>6. ASSUME NEW kind \in {"getAttributes", "getMembers", "getInfo"},
             NEW row \in Rows, StartRead(kind, row)
      PROVE  LobbyInv'
  BY <1>6, StartReadInv
<1>7. CASE ReadReturns
  BY <1>7, ReturnInv
     DEF ReadReturns, serviceVars, LobbyInv, LobbyTypeOK, NoDanglingPointers,
         RowsFaithful
<1>8. CASE UNCHANGED vars
  BY <1>8
     DEF vars, callVars, serviceVars, LobbyInv, LobbyTypeOK, Room, SetProgress,
         NoDanglingPointers, ReadProgress, RowsFaithful, HandlesReleased
<1> QED
  BY <1>1, <1>2, <1>3, <1>4, <1>5, <1>6, <1>7, <1>8 DEF Next

LEMMA LobbyInvHolds == Spec => []LobbyInv
  BY LobbyInitInv, LobbyNextInv, PTL DEF Spec

-----------------------------------------------------------------------------
(* The theorems.                                                           *)

\* Every variable keeps its type; the integers of attributes stay in int64_t.
THEOREM LobbyTypeCorrect == Spec => []LobbyTypeOK
<1>1. LobbyInv => LobbyTypeOK
  BY DEF LobbyInv
<1> QED
  BY <1>1, LobbyInvHolds, PTL

\* However many attributes of whatever types are set, no pointer into the
\* backing store is used after its string has moved (lobby.cc:522-526).
THEOREM NoDanglingPointersHolds == Spec => []NoDanglingPointers
<1>1. LobbyInv => NoDanglingPointers
  BY DEF LobbyInv
<1> QED
  BY <1>1, LobbyInvHolds, PTL

\* An update has every attribute of the caller's object, under the name that its
\* key became, or is never sent (lobby.cc:529-558).
THEOREM WholeUpdatesHolds == Spec => []WholeUpdates
<1>1. LobbyInv => WholeUpdates
  BY FaithfulKeys DEF LobbyInv, RowsFaithful, Whole, LobbyTypeOK, WholeUpdates
<1> QED
  BY <1>1, LobbyInvHolds, PTL

\* What is written is read again (lobby.cc:97-153): numbers and booleans
\* as they are, the sign of zero excepted, and strings as the C strings that
\* lobby.cc:143-145 makes of them.
THEOREM ReadsWhatWasWrittenHolds == Spec => []ReadsWhatWasWritten
<1>1. ASSUME LobbyInv, NEW n \in KeysOf(result)
      PROVE  SameValue(Converted(written[scope][n]), result[n])
  <2>1. n \in Names /\ result[n] # Unset
    BY <1>1 DEF LobbyInv, LobbyTypeOK, KeysOf
  <2>2. call = "getAttributes"
    BY <1>1, <2>1, NothingTypes DEF LobbyInv, ReadProgress
  <2>3. n \in KeysOf(stored[scope]) /\ result[n] = AttributeToJs(stored[scope][n])
    BY <1>1, <2>1, <2>2 DEF LobbyInv, ReadProgress
  <2>4. /\ Faithful(written[scope], stored[scope])
        /\ written[scope] \in Values /\ stored[scope] \in Modifications
    BY <1>1 DEF LobbyInv, RowsFaithful, LobbyTypeOK
  <2>5. /\ written[scope][n] \in JsValues
        /\ stored[scope][n] \in JsToAttribute(written[scope][n])
    BY <2>1, <2>3, <2>4, FaithfulKeys DEF Values
  <2> QED
    BY <2>3, <2>5, AttributeRepresents DEF Represents
<1>2. LobbyInv => ReadsWhatWasWritten
  BY <1>1 DEF ReadsWhatWasWritten
<1> QED
  BY <1>2, LobbyInvHolds, PTL

\* An attribute of type INT64 is the integer that was written, on hardware that
\* saturates and on hardware that does not (lobby.cc:129-141).
THEOREM ExactInt64Holds == Spec => []ExactInt64
<1>1. ASSUME LobbyInv, NEW row \in Rows, NEW n \in Names,
             stored[row][n][1] = "AT_INT64"
      PROVE  \/ SameValue(written[row][n], <<"integer", stored[row][n][2]>>)
             \/ /\ written[row][n] = <<"integer", IntMax + 1>>
                /\ stored[row][n][2] = IntMax
  <2>1. Faithful(written[row], stored[row]) /\ written[row] \in Values
    BY <1>1 DEF LobbyInv, RowsFaithful, LobbyTypeOK
  <2>2. stored[row][n] # Unset
    BY <1>1 DEF Unset
  <2>3. /\ written[row][n] \in JsValues
        /\ stored[row][n] \in JsToAttribute(written[row][n])
    BY <2>1, <2>2 DEF Faithful, Values
  <2> QED
    BY <1>1, <2>3, AttributeRepresents DEF Represents
<1>2. LobbyInv => ExactInt64
  BY <1>1 DEF ExactInt64
<1> QED
  BY <1>2, LobbyInvHolds, PTL

\* A call that has returned holds no modification and no details
\* (lobby.cc:39-56, 533-571).
THEOREM HandlesReleasedHolds == Spec => []HandlesReleased
<1>1. LobbyInv => HandlesReleased
  BY DEF LobbyInv
<1> QED
  BY <1>1, LobbyInvHolds, PTL
=============================================================================
