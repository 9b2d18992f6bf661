----------------------------- MODULE LobbyData -----------------------------
(***************************************************************************)
(* The data of a lobby (lobby.cc): how setAttributes and                   *)
(* setMemberAttributes turn a JavaScript object into a modification, one   *)
(* attribute at a time, and how the reads turn what the SDK holds into     *)
(* JavaScript again, with the SDK handles and the backing strings both     *)
(* need on the way.  One lobby is modelled, seen from one process; its     *)
(* promises are module Bridge's subject.                                   *)
(*                                                                         *)
(* The caller's object is a plain one, without getters, so that none of    *)
(* these calls gives JavaScript control before it returns, and the SDK     *)
(* changes what it holds only inside a tick: `call` is what is on the      *)
(* stack.  A value is a pair of its kind and its content; a string is the  *)
(* name of what distinguishes it.                                          *)
(***************************************************************************)
EXTENDS Integers, FiniteSets

CONSTANTS
  Keys,            \* attribute names
  Strings,         \* the strings among the values
  Magnitudes,      \* the integers among the values, and their negatives
  Reals,           \* the other numbers among the values
  Width,           \* the bits of an int64_t
  Precision,       \* the bits of a double's significand
  MaxWrites        \* bound: calls of setAttributes and setMemberAttributes

Numbers == Magnitudes \cup {-n : n \in Magnitudes}
IntMin == -(2 ^ (Width - 1))
IntMax == 2 ^ (Width - 1) - 1

\* The integers, up to twice the range of int64_t, that a double can be, and the
\* one nearest to an integer.
Doubles ==
  {s * m * 2 ^ e : s \in {-1, 1}, m \in 0..(2 ^ Precision - 1),
                   e \in 0..(Width - Precision + 1)}

Nearest(n) ==
  LET Distance(d) == IF d < n THEN n - d ELSE d - n
  IN  CHOOSE d \in Doubles : \A e \in Doubles : Distance(d) <= Distance(e)

\* "cut" is what stands before the NUL of "withNul", "replaced" is "surrogate"
\* with U+FFFD for its lone surrogate.
StringNames == {"plain", "withNul", "cut", "surrogate", "replaced"}

RealNames == {"Fraction", "MinusZero", "NaN", "Infinity", "MinusInfinity"}

\* As in 64 bits: a double holds -2^63 exactly, and 2^63 - 1 as 2^63.
ASSUME LobbyDataAssumption ==
  /\ IsFiniteSet(Keys)
  /\ Keys \subseteq StringNames /\ Strings \subseteq StringNames
  /\ Reals \subseteq RealNames
  /\ IntMin \in Int /\ IntMax \in Int /\ IntMin < 0 /\ 0 < IntMax
  /\ Magnitudes \subseteq Int
  /\ \A n \in Numbers \cup {0, IntMin} : Nearest(n) = n
  /\ Nearest(IntMax) = IntMax + 1
  /\ MaxWrites \in Nat

Unset == <<"unset", "unset">>
JsNumbers == ({"integer"} \X Numbers) \cup ({"real"} \X Reals)
JsValues == JsNumbers \cup ({"string"} \X Strings) \cup ({"boolean"} \X BOOLEAN)
              \cup {<<"object", "object">>}
JsObjects == [Keys -> JsValues \cup {Unset}]

\* Utf8Value().c_str(): a lone surrogate is replaced, and the SDK reads up to
\* the first NUL.
CString(s) ==
  IF s = "withNul" THEN "cut" ELSE IF s = "surrogate" THEN "replaced" ELSE s

\* The keys as the SDK has them: two of the caller's may become one.
Names == {CString(k) : k \in Keys}

\* EOS_Lobby_AttributeData.
AttributeData ==
  ({"AT_INT64"} \X (IntMin..IntMax)) \cup ({"AT_DOUBLE"} \X JsNumbers)
    \cup ({"AT_BOOLEAN"} \X BOOLEAN)
    \cup ({"AT_STRING"} \X {CString(s) : s \in Strings})

Rows == {"lobby", "member"}  \* the lobby's attributes, the local member's own
Calls == {"idle", "set", "getAttributes", "getMembers", "getInfo"}

Handles == {"modification", "details", "attribute without Data"}

VARIABLES
  call,          \* what is on the stack
  scope,         \* the row that the call is about
  attributes,    \* set: the caller's object
  todo,          \* the keys of the loop that are left
  modification,  \* set: what the modification holds
  given,         \* history: the JavaScript values behind it
  result,        \* getAttributes: the object that will be returned
  storage,       \* set: the vector of backing strings
  dangling,      \* a pointer into storage was used after the strings moved
  held,          \* the kinds of SDK handles that were not released
  updates,       \* the modifications under way to the service
  stored,        \* what the SDK holds for each row
  written,       \* history: the JavaScript values behind that
  writes         \* how many of the bounded calls were made

callVars ==
  <<call, scope, attributes, todo, modification, given, result, storage>>
serviceVars == <<updates, stored, written>>
vars == <<callVars, dangling, held, serviceVars, writes>>

NoObject == [k \in Keys |-> Unset]
Nothing == [n \in Names |-> Unset]
KeysOf(object) == {k \in DOMAIN object : object[k] # Unset}

-----------------------------------------------------------------------------
(* The conversions.                                                        *)

\* Mutation: the number is used as it is.
CastInteger_Unbounded(n) == {n}

\* static_cast<int64_t> of an integer: out of range, the smallest value (x86)
\* or the nearest one (ARM).
CastInteger(n) ==
  IF n > IntMax THEN {IntMin, IntMax}
  ELSE IF n < IntMin THEN {IntMin} ELSE {n}

CastReal == [Fraction |-> {0}, MinusZero |-> {0}, NaN |-> {IntMin, 0},
             Infinity |-> {IntMin, IntMax}, MinusInfinity |-> {IntMin}]

Casts(v) ==
  IF v[1] = "integer" THEN CastInteger(v[2])
  ELSE IF v[1] = "real" THEN CastReal[v[2]] ELSE {}

ToDouble(n) == <<"integer", Nearest(n)>>

\* Mutation: a fraction is taken for the integer it was cut to.
SameNumber_Rounded(v, w) ==
  v = w \/ (v \in {"real"} \X {"MinusZero", "Fraction"} /\ w = <<"integer", 0>>)

\* == of two numbers.
SameNumber(v, w) ==
  v = w \/ (v = <<"real", "MinusZero">> /\ w = <<"integer", 0>>)

\* Integers travel as INT64; c is what the cast made of the number.
NumberToAttribute(v, c) ==
  IF SameNumber(v, ToDouble(c)) THEN <<"AT_INT64", c>> ELSE <<"AT_DOUBLE", v>>

\* What JsToAttribute may make of a value: nothing, when it throws.
JsToAttribute(v) ==
  IF v[1] = "boolean" THEN {<<"AT_BOOLEAN", v[2]>>}
  ELSE IF v[1] = "string" THEN {<<"AT_STRING", CString(v[2])>>}
  ELSE {NumberToAttribute(v, c) : c \in Casts(v)}

\* Mutation: the type of the attribute is taken for its value.
AttributeToJs_AnyTrue(data) ==
  IF data[1] = "AT_BOOLEAN" THEN <<"boolean", TRUE>>
  ELSE IF data[1] = "AT_INT64" THEN ToDouble(data[2])
  ELSE IF data[1] = "AT_DOUBLE" THEN data[2]
  ELSE <<"string", data[2]>>

AttributeToJs(data) ==
  IF data[1] = "AT_BOOLEAN" THEN <<"boolean", data[2]>>
  ELSE IF data[1] = "AT_INT64" THEN ToDouble(data[2])
  ELSE IF data[1] = "AT_DOUBLE" THEN data[2]
  ELSE <<"string", data[2]>>

-----------------------------------------------------------------------------
Init ==
  /\ call = "idle" /\ scope = "lobby"
  /\ attributes = NoObject /\ todo = {}
  /\ modification = Nothing /\ given = Nothing /\ result = Nothing
  /\ storage = [size |-> 0, capacity |-> 0]
  /\ dangling = FALSE
  /\ held = {}
  /\ updates = {}
  /\ stored = [row \in Rows |-> Nothing]
  /\ written = [row \in Rows |-> Nothing]
  /\ writes = 0

\* The call returns: its locals are gone.
Unwind ==
  /\ call' = "idle" /\ scope' = "lobby"
  /\ attributes' = NoObject /\ todo' = {}
  /\ modification' = Nothing /\ given' = Nothing /\ result' = Nothing
  /\ storage' = [size |-> 0, capacity |-> 0]

\* It releases what it has a handle of before: the modification, or the details.
Return == Unwind /\ held' = held \ {"modification", "details"}

-----------------------------------------------------------------------------
(* Writes: ApplyAttributes.                                                *)

\* Mutation: room for the keys only.
Reserved_KeysOnly(n) == n

\* Room for the key and the value of every attribute.
Reserved(n) == 2 * n

\* EOS_Lobby_UpdateLobbyModification; when it fails nothing has changed.
StartSet(row, object) ==
  /\ call = "idle"
  /\ writes < MaxWrites
  /\ writes' = writes + 1
  /\ call' = "set" /\ scope' = row
  /\ attributes' = object /\ todo' = KeysOf(object)
  /\ storage' = [size |-> 0, capacity |-> Reserved(Cardinality(KeysOf(object)))]
  /\ held' = held \cup {"modification"}
  /\ UNCHANGED <<modification, given, result, dangling, serviceVars>>

\* push_back: a full vector moves its strings.
Pushed(vector) ==
  [size |-> vector.size + 1,
   capacity |-> IF vector.size < vector.capacity THEN vector.capacity
                ELSE vector.size + 1]

\* JsToAttribute pushes the key, then a string's value; the pointer to the key
\* is taken in between.
Pushes(key, vector) ==
  IF attributes[key][1] = "string" THEN Pushed(Pushed(vector)) ELSE Pushed(vector)

KeyMoves(key) ==
  LET withKey == Pushed(storage)
  IN  attributes[key][1] = "string" /\ withKey.size >= withKey.capacity

Supported(key) == JsToAttribute(attributes[key]) # {}

\* Mutation: a value of an unsupported type is passed over.
Throws_Skips(key) ==
  /\ ~Supported(key)
  /\ todo' = todo \ {key}
  /\ UNCHANGED <<call, scope, attributes, modification, given, result, storage,
                 held, dangling>>

Throws(key) == ~Supported(key) /\ Return /\ UNCHANGED dangling

\* Mutation: the modification is not released.
AddFails_KeepsHandle(key) == Supported(key) /\ Unwind /\ UNCHANGED held

\* AddAttribute or AddMemberAttribute fails.
AddFails(key) == Supported(key) /\ Return

\* A name that the modification has already is given the new value.
Adds(key) ==
  /\ \E data \in JsToAttribute(attributes[key]) :
       modification' = [modification EXCEPT ![CString(key)] = data]
  /\ given' = [given EXCEPT ![CString(key)] = attributes[key]]
  /\ todo' = todo \ {key}
  /\ storage' = Pushes(key, storage)
  /\ UNCHANGED <<call, scope, attributes, result, held>>

AddAttribute(key) ==
  /\ call = "set" /\ key \in todo
  /\ \/ Throws(key)
     \/ /\ AddFails(key) \/ Adds(key)
        /\ dangling' = (dangling \/ KeyMoves(key))
  /\ UNCHANGED <<serviceVars, writes>>

UpdateLobby ==
  /\ call = "set" /\ todo = {}
  /\ updates' = updates \cup
       {[row |-> scope, object |-> attributes, given |-> given,
         data |-> modification]}
  /\ Return
  /\ UNCHANGED <<dangling, stored, written, writes>>

\* Inside a tick the SDK learns that the service has taken an update, or has
\* refused it.
Updated(u) ==
  /\ call = "idle" /\ u \in updates
  /\ updates' = updates \ {u}
  /\ \/ UNCHANGED <<stored, written>>
     \/ /\ stored' = [stored EXCEPT ![u.row] =
             [n \in Names |-> IF n \in KeysOf(u.data) THEN u.data[n] ELSE @[n]]]
        /\ written' = [written EXCEPT ![u.row] =
             [n \in Names |-> IF n \in KeysOf(u.given) THEN u.given[n] ELSE @[n]]]
  /\ UNCHANGED <<callVars, dangling, held, writes>>

-----------------------------------------------------------------------------
(* Reads.  CopyDetails throws when it fails, and nothing has changed; the  *)
(* handle goes with the scope of the ScopedLobbyDetails.                   *)

StartRead(kind, row) ==
  /\ call = "idle"
  /\ call' = kind /\ scope' = row
  /\ todo' = IF kind = "getAttributes" THEN KeysOf(stored[row]) ELSE {}
  /\ held' = held \cup {"details"}
  /\ UNCHANGED <<attributes, modification, given, result, storage, dangling,
                 serviceVars, writes>>

\* An attribute whose copy fails is passed over; so is one without Data, and
\* that one stays copied.
CopyAttribute(name) ==
  /\ call = "getAttributes" /\ name \in todo
  /\ todo' = todo \ {name}
  /\ \/ /\ held' \in {held, held \cup {"attribute without Data"}}
        /\ UNCHANGED result
     \/ /\ result' = [result EXCEPT ![name] = AttributeToJs(stored[scope][name])]
        /\ UNCHANGED held
  /\ UNCHANGED <<call, scope, attributes, modification, given, storage,
                 dangling, serviceVars, writes>>

\* getMembers and getInfo copy nothing that outlives a statement; getInfo
\* throws when CopyInfo fails.
ReadReturns ==
  /\ call \in {"getAttributes", "getMembers", "getInfo"} /\ todo = {}
  /\ Return
  /\ UNCHANGED <<dangling, serviceVars, writes>>

-----------------------------------------------------------------------------
Next ==
  \/ \E row \in Rows, object \in JsObjects : StartSet(row, object)
  \/ \E key \in Keys : AddAttribute(key)
  \/ \E name \in Names : CopyAttribute(name)
  \/ UpdateLobby
  \/ \E u \in updates : Updated(u)
  \/ \E kind \in {"getAttributes", "getMembers", "getInfo"}, row \in Rows :
       StartRead(kind, row)
  \/ ReadReturns

Spec == Init /\ [][Next]_vars

-----------------------------------------------------------------------------
(* Properties.                                                             *)

Modifications == [Names -> AttributeData \cup {Unset}]
Values == [Names -> JsValues \cup {Unset}]
JsReads ==
  JsValues \cup {<<"integer", 0>>} \cup ({"string"} \X {CString(s) : s \in Strings})

LobbyTypeOK ==
  /\ call \in Calls /\ scope \in Rows
  /\ attributes \in JsObjects
  /\ todo \subseteq Keys \cup Names
  /\ modification \in Modifications
  /\ given \in Values
  /\ result \in [Names -> JsReads \cup {Unset}]
  /\ storage \in [size : Nat, capacity : Nat]
  /\ dangling \in BOOLEAN
  /\ held \subseteq Handles
  /\ updates \subseteq
       [row : Rows, object : JsObjects, given : Values, data : Modifications]
  /\ stored \in [Rows -> Modifications]
  /\ written \in [Rows -> Values]
  /\ writes \in Nat

\* Whatever mixture of strings and other values is set, the SDK never reads a
\* key or a string that has moved (lobby.cc:522-523: the backing store "must
\* outlive the Add*Attribute calls").
NoDanglingPointers == ~dangling

\* A write is all or nothing: whatever value or call fails in the middle of the
\* loop, an update that is sent has every attribute of the caller's object, under
\* the name its key became, and what the lobby holds is a sequence of whole
\* updates.
WholeUpdates ==
  /\ \A u \in updates : KeysOf(u.data) = {CString(k) : k \in KeysOf(u.object)}
  /\ \A row \in Rows : KeysOf(stored[row]) = KeysOf(written[row])

\* JavaScript cannot tell the values apart, but for the sign of zero.
SameValue(v, w) ==
  v = w \/ {v, w} = {<<"real", "MinusZero">>, <<"integer", 0>>}

\* A string loses what stands behind a NUL, and its lone surrogates.
Converted(v) == IF v[1] = "string" THEN <<"string", CString(v[2])>> ELSE v

\* What a read returns under a name is what was written last to it, in the row
\* it was written to, also for numbers at and beyond the ends of int64
\* (lobby.cc:131-132); of a string, what is left of it as a C string.
ReadsWhatWasWritten ==
  \A n \in KeysOf(result) : SameValue(Converted(written[scope][n]), result[n])

\* lobby.cc:131-132: an attribute that travels as INT64 is the number that was
\* written, whatever the cast does to numbers out of its range; only 2^63
\* itself may become 2^63 - 1.
ExactInt64 ==
  \A row \in Rows : \A n \in Names :
    stored[row][n][1] = "AT_INT64" =>
      \/ SameValue(written[row][n], <<"integer", stored[row][n][2]>>)
      \/ /\ written[row][n] = <<"integer", IntMax + 1>>
         /\ stored[row][n][2] = IntMax

\* Whichever way a call ends, it releases the handles it copied
\* (lobby.cc:39-41); an attribute stays copied only when it came without Data.
HandlesReleased ==
  call = "idle" => held \subseteq {"attribute without Data"}
=============================================================================
