------------------------------ MODULE AtomTable ------------------------------
(***************************************************************************)
(* The atom table (jsatom.c): js_Atomize, js_AtomizeChars, js_AtomizeDouble*)
(* and js_AtomizeString, which let go of the table's lock to allocate what *)
(* the new atom's key needs, and js_SweepAtomState, which a collection     *)
(* calls and which does not take the lock.                                 *)
(*                                                                         *)
(* A step is a section under state->lock (a Mutex), an allocation, or a    *)
(* collection, which waits until other threads are outside requests or in  *)
(* js_GC themselves.  state->tablegen is compared for equality only, so    *)
(* that same[t] stands for it: it has not changed since thread t read it.  *)
(***************************************************************************)
EXTENDS HashTable

CONSTANTS
  Threads,
  Atoms,    \* memory for atoms
  Buffers,  \* memory for characters
  Ops,      \* which calls are made, and which allocations can fail
  NoKey, NoBuffer, NoCell, FreedCell, NoAtom

ASSUME AtomTableAssumption ==
  /\ Ops \subseteq {"Pin", "NoCopy", "NoArray", "NoEntry"}
  /\ IsFiniteSet(Atoms) /\ Cardinality(Atoms) < Overloaded(Power[HashBits])  \* there is not memory for more
  /\ NoKey \notin Keys
  /\ NoBuffer \notin Buffers
  /\ NoAtom \notin Atoms

VARIABLES
  table,     \* state->table, without nentries
  nentries,  \* state->table->nentries
  key,       \* key[a]: the characters of a's key; NoKey for free memory
  chars,     \* chars[a]: where they are
  pinned,    \* the atoms with ATOM_PINNED
  rooted,    \* the atoms a collection marks from other roots
  strings,   \* the characters that strings on the GC heap own
  malloced,  \* the characters that are not freed
  pc,        \* where each thread is
  arg,       \* the characters it looks for
  flags,     \* its flags: a subset of {"Pin", "NoCopy"}
  own,       \* the characters js_Atomize has made
  str,       \* the characters of the new string
  hep,       \* its local variable hep
  same,      \* state->tablegen == gen
  moved      \* whether a failed add has changed the table's size

atoms == <<table, nentries, key, chars, pinned>>
memory == <<strings, malloced>>
locals == <<arg, flags, own, str>>
vars == <<atoms, memory, locals, rooted, pc, hep, same, moved>>
-----------------------------------------------------------------------------
Live == {a \in Atoms : key[a] # NoKey}

TypeOK ==
  /\ table.log \in MinLog..HashBits
  /\ \E log \in MinLog..table.log : table.buckets \in [0..(Power[log] - 1) -> Seq(Atoms)]
  /\ Sound(table) \/ moved
  /\ nentries \in Nat
  /\ key \in [Atoms -> Keys \cup {NoKey}]
  /\ chars \in [Atoms -> Buffers \cup {NoBuffer}]
  /\ pinned \subseteq Live /\ rooted \subseteq Live
  /\ strings \subseteq Buffers /\ malloced \subseteq Buffers
  /\ pc \in [Threads -> {"run", "new", "add", "wild"}]
  /\ arg \in [Threads -> Keys \cup {NoKey}]
  /\ flags \in [Threads -> SUBSET {"Pin", "NoCopy"}]
  /\ own \in [Threads -> Buffers \cup {NoBuffer}]
  /\ str \in [Threads -> Buffers \cup {NoBuffer}]
  /\ same \in [Threads -> BOOLEAN]
  /\ moved \in BOOLEAN
  /\ \A t \in Threads : hep[t] \in {NoCell, FreedCell} \cup {NextCell(a) : a \in Live}
                                    \cup {Bucket(i) : i \in DOMAIN table.buckets}

Init ==
  /\ table = EmptyTable
  /\ nentries = 0
  /\ key = [a \in Atoms |-> NoKey]
  /\ chars = [a \in Atoms |-> NoBuffer]
  /\ pinned = {} /\ rooted = {}
  /\ strings = {} /\ malloced = {}
  /\ pc = [t \in Threads |-> "run"]
  /\ arg = [t \in Threads |-> NoKey]
  /\ flags = [t \in Threads |-> {}]
  /\ own = [t \in Threads |-> NoBuffer]
  /\ str = [t \in Threads |-> NoBuffer]
  /\ hep = [t \in Threads |-> NoCell]
  /\ same = [t \in Threads |-> FALSE]
  /\ moved = FALSE

Goto(t, from, to) == pc[t] = from /\ pc' = [pc EXCEPT ![t] = to]

\* js_AtomizeString returns an atom to its caller, which keeps it where a
\* collection finds it, or does not.
Return(a) == rooted' \in {rooted, rooted \cup {a}}

Reset(t) ==
  /\ arg' = [arg EXCEPT ![t] = NoKey]
  /\ flags' = [flags EXCEPT ![t] = {}]
  /\ own' = [own EXCEPT ![t] = NoBuffer]
  /\ str' = [str EXCEPT ![t] = NoBuffer]

\* What becomes of the addresses that threads keep when Dead are freed, and
\* the array of buckets when the table gets another size.
Dangling(Dead, resized) ==
  [u \in Threads |->
     IF \/ \E a \in Dead : hep[u] = NextCell(a)
        \/ resized /\ \E i \in DOMAIN table.buckets : hep[u] = Bucket(i)
     THEN FreedCell ELSE hep[u]]

Pinned(a, pin) == IF pin THEN pinned \cup {a} ELSE pinned

\* js_alloc_atom and js_free_atom: state->tablegen++.
NextGeneration == same' = [u \in Threads |-> FALSE]

\* JS_HashTableRawAdd of k through cell to table T; b has the characters.
RawAdd(t, T, cell, k, b, pin) ==
  LET G == Grown(T, key, nentries)
      resized == G.log # T.log
  IN \E a \in Atoms \ Live :
       /\ table' = Insert(G, IF resized THEN TailCell(G, k) ELSE cell, a)
       /\ nentries' = nentries + 1
       /\ key' = [key EXCEPT ![a] = k]
       /\ chars' = [chars EXCEPT ![a] = b]
       /\ pinned' = Pinned(a, pin)
       /\ hep' = [Dangling({}, resized) EXCEPT ![t] = NoCell]
       /\ NextGeneration
       /\ Return(a)
-----------------------------------------------------------------------------
(***************************************************************************)
(* The first section: look the key up.  When it is there set the flags and *)
(* return; js_Atomize frees the characters it has made.                    *)
(***************************************************************************)
Found(t, k, pin) ==
  /\ pc[t] = "run"
  /\ Sound(table)
  /\ \E a \in FoundIn(table, key, k) :
       /\ table' = MoveToFront(table, Index(k, table.log), a)
       /\ pinned' = Pinned(a, pin)
       /\ Return(a)
  /\ UNCHANGED <<nentries, key, chars, memory, locals, pc, hep, same, moved>>

\* Or else keep the address and the generation, and unlock.
NotFound(t, k, f) ==
  /\ Goto(t, "run", "new")
  /\ Sound(table)
  /\ FoundIn(table, key, k) = {}
  /\ arg' = [arg EXCEPT ![t] = k]
  /\ flags' = [flags EXCEPT ![t] = f]
  /\ \/ /\ "NoCopy" \in f
        /\ \E b \in Buffers \ malloced :
             /\ own' = [own EXCEPT ![t] = b]
             /\ malloced' = malloced \cup {b}
     \/ "NoCopy" \notin f /\ UNCHANGED <<own, malloced>>
  /\ hep' = [hep EXCEPT ![t] = TailCell(table, k)]
  /\ same' = [same EXCEPT ![t] = TRUE]
  /\ UNCHANGED <<atoms, strings, rooted, str, moved>>

\* A string that is on the GC heap already becomes the key at once.
AddString(t, k) ==
  /\ pc[t] = "run"
  /\ Sound(table)
  /\ FoundIn(table, key, k) = {}
  /\ \E b \in Buffers \ malloced :
       /\ malloced' = malloced \cup {b}
       /\ strings' = strings \cup {b}
       /\ RawAdd(t, table, TailCell(table, k), k, b, FALSE)
  /\ UNCHANGED <<locals, pc, moved>>

(***************************************************************************)
(* js_NewString takes js_Atomize's characters, js_NewStringCopyN copies    *)
(* those of js_AtomizeChars's caller.                                      *)
(***************************************************************************)
NewString(t) ==
  /\ Goto(t, "new", "add")
  /\ \E b \in IF "NoCopy" \in flags[t] THEN {own[t]} ELSE Buffers \ malloced :
       /\ malloced' = malloced \cup {b}
       /\ strings' = strings \cup {b}
       /\ str' = [str EXCEPT ![t] = b]
  /\ UNCHANGED <<atoms, arg, flags, own, rooted, hep, same, moved>>

\* It fails; js_Atomize frees the characters.
NewStringFails(t) ==
  /\ "NoEntry" \in Ops
  /\ Goto(t, "new", "run")
  /\ malloced' = malloced \ {own[t]}
  /\ Reset(t)
  /\ hep' = [hep EXCEPT ![t] = NoCell]
  /\ same' = [same EXCEPT ![t] = FALSE]
  /\ UNCHANGED <<atoms, strings, rooted, moved>>
-----------------------------------------------------------------------------
(***************************************************************************)
(* The second section: add the entry where the first has looked, unless    *)
(* the generation has changed.                                             *)
(***************************************************************************)
\* Mutant: the generation is not looked at.
AddAnyway(t) ==
  /\ Goto(t, "add", "run")
  /\ hep[t] # FreedCell
  /\ RawAdd(t, table, hep[t], arg[t], str[t], "Pin" \in flags[t])
  /\ Reset(t)
  /\ UNCHANGED <<memory, moved>>

Add(t) ==
  /\ Goto(t, "add", "run")
  /\ Sound(table)
  /\ same[t]
  /\ hep[t] # FreedCell
  /\ RawAdd(t, table, hep[t], arg[t], str[t], "Pin" \in flags[t])
  /\ Reset(t)
  /\ UNCHANGED <<memory, moved>>

AddAgain(t) ==
  /\ Goto(t, "add", "run")
  /\ ~same[t]
  /\ Sound(table)
  /\ FoundIn(table, key, arg[t]) = {}
  /\ RawAdd(t, table, TailCell(table, arg[t]), arg[t], str[t], "Pin" \in flags[t])
  /\ Reset(t)
  /\ UNCHANGED <<memory, moved>>

\* Another thread has added the key meanwhile: return its atom as it is.
\* js_Atomize frees its characters, which the new string has, too.
FoundAgain(t) ==
  /\ Goto(t, "add", "run")
  /\ ~same[t]
  /\ Sound(table)
  /\ \E a \in FoundIn(table, key, arg[t]) :
       /\ table' = MoveToFront(table, Index(arg[t], table.log), a)
       /\ Return(a)
  /\ malloced' = malloced \ {own[t]}
  /\ Reset(t)
  /\ hep' = [hep EXCEPT ![t] = NoCell]
  /\ UNCHANGED <<nentries, key, chars, pinned, strings, same, moved>>

\* JS_HashTableRawAdd fails: to double the array, when shift has changed
\* already, or to make the entry.
AddFails(t) ==
  LET G == Grown(table, key, nentries)
      resized == G.log # table.log
  IN
  /\ Goto(t, "add", "run")
  /\ Sound(table)
  /\ IF same[t] THEN hep[t] # FreedCell ELSE FoundIn(table, key, arg[t]) = {}
  /\ \/ /\ "NoArray" \in Ops
        /\ resized
        /\ table' = [table EXCEPT !.log = @ + 1]
        /\ hep' = [hep EXCEPT ![t] = NoCell]
     \/ /\ "NoEntry" \in Ops
        /\ table' = G
        /\ hep' = [Dangling({}, resized) EXCEPT ![t] = NoCell]
  /\ malloced' = malloced \ {own[t]}
  /\ Reset(t)
  /\ same' = [same EXCEPT ![t] = FALSE]
  /\ moved' = (moved \/ resized)
  /\ UNCHANGED <<nentries, key, chars, pinned, strings, rooted>>

\* A lookup outside the array of buckets, or a store to freed memory.
Wild(t) ==
  /\ \/ pc[t] \in {"run", "add"} /\ ~Sound(table)
     \/ pc[t] = "add" /\ same[t] /\ hep[t] = FreedCell
  /\ pc' = [pc EXCEPT ![t] = "wild"]
  /\ UNCHANGED <<atoms, memory, locals, rooted, hep, same, moved>>
-----------------------------------------------------------------------------
(***************************************************************************)
(* A collection sweeps the atoms that are neither pinned nor marked, and   *)
(* finalizes the strings that were their keys, or nobody's.                *)
(***************************************************************************)
Collect ==
  LET Dead == Live \ (rooted \cup pinned) IN
  /\ \A u \in Threads : pc[u] \in {"run", "new"}
  /\ Sound(table)
  /\ table' = Swept(table, key, nentries, Dead)
  /\ nentries' = nentries - Cardinality(Dead)
  /\ key' = [a \in Atoms |-> IF a \in Dead THEN NoKey ELSE key[a]]
  /\ chars' = [a \in Atoms |-> IF a \in Dead THEN NoBuffer ELSE chars[a]]
  /\ strings' = {chars[a] : a \in Live \ Dead}
  /\ malloced' = malloced \ (strings \ strings')
  /\ hep' = Dangling(Dead, table'.log # table.log)
  /\ IF Dead = {} THEN UNCHANGED same ELSE NextGeneration
  /\ UNCHANGED <<pinned, rooted, pc, locals, moved>>

\* The last reference to an atom goes away.
Release(a) ==
  /\ a \in rooted
  /\ rooted' = rooted \ {a}
  /\ UNCHANGED <<atoms, memory, locals, pc, hep, same, moved>>
-----------------------------------------------------------------------------
Atomize(t) ==
  \/ \E k \in Keys : \/ \E pin \in {FALSE, "Pin" \in Ops} : Found(t, k, pin)
                     \/ \E f \in SUBSET (Ops \cap {"Pin", "NoCopy"}) : NotFound(t, k, f)
                     \/ AddString(t, k)
  \/ NewString(t) \/ NewStringFails(t)
  \/ Add(t) \/ AddAgain(t) \/ FoundAgain(t) \/ AddFails(t) \/ Wild(t)

Next == \/ \E t \in Threads : Atomize(t)
        \/ Collect
        \/ \E a \in Atoms : Release(a)

Spec == Init /\ [][Next]_vars
-----------------------------------------------------------------------------
\* Every atom is in exactly one place, in the chain of its key's hash code, no
\* two have the same key, and nentries counts them: although an atom is added
\* through an address that another section has found, chains are reordered
\* by lookups, and sweeping halves the table.  Once a failed add has changed
\* the table's size (HepValid) the chains may be the wrong ones.
Interned ==
  /\ Entries(table) = Live
  /\ nentries = Cardinality(Live)
  /\ ~moved => \A i \in DOMAIN table.buckets : \A p, q \in DOMAIN table.buckets[i] :
       /\ Index(key[table.buckets[i][p]], table.log) = i
       /\ key[table.buckets[i][p]] = key[table.buckets[i][q]] => p = q

\* Type correctness and interning, after every step of every thread.
TableSound == TypeOK /\ Interned

\* As long as the generation has not changed, the address that a thread has
\* found is still one in the chain of its key, and the key is not there yet.
\* The code does not keep this: a failed add that has doubled the table leaves
\* the generation.
HepValid ==
  \A t \in Threads : pc[t] \in {"new", "add"} /\ same[t] =>
    LET i == Index(arg[t], table.log) IN
    /\ FoundIn(table, key, arg[t]) = {}
    /\ \/ hep[t] = Bucket(i)
       \/ \E a \in ToSet(table.buckets[i]) : hep[t] = NextCell(a)

\* There is one atom for equal characters as long as it is reachable, until a
\* failed add has changed the table's size.
AtomFor(k) == IF FoundIn(table, key, k) = {} THEN NoAtom
              ELSE CHOOSE a \in FoundIn(table, key, k) : TRUE
Abstract == INSTANCE Interning WITH Contents <- Keys, atomOf <- [k \in Keys |-> AtomFor(k)]
ImplementsInterning ==
  Abstract!Init /\ [][moved' \/ Abstract!Next]_<<table, key, rooted>>

\* "atom is pinned against GC" (jsatom.h:40): what js_AtomizeString returns is
\* pinned when its flags say so.  The code does not keep this: it returns an
\* atom that another thread has added meanwhile as it is.
PinnedWhenAsked ==
  [][\A t \in Threads : pc[t] = "add" /\ pc'[t] = "run" /\ "Pin" \in flags[t] =>
        {a \in Live' : key'[a] = arg[t]} \subseteq pinned']_vars

\* "don't copy atom string bytes" (jsatom.h:37): the characters are the
\* string's then, and not freed while there is the string.  The code does not
\* keep this: js_Atomize frees what FoundAgain has given to a string.
CharsOwned == strings \subseteq malloced

\* "Grow the table if it is overloaded" (jshash.c:187): also when it cannot.
\* The code does not keep this: when the array cannot be made its size has
\* been changed already.
NoWildAccess == \A t \in Threads : pc[t] # "wild"
=============================================================================
