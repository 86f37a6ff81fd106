--------------------------------- MODULE Kira ---------------------------------
(***************************************************************************)
(* The gate of mind/src/kira.rs over abstract requests: which of the       *)
(* stages a request fails first.  Parse and authn have no case here: a     *)
(* request is typed when it is built, and Instance::propose signs it with  *)
(* the key, the tag and the tick that the gate then verifies.              *)
(*                                                                         *)
(* A request spells its places.  A spelling is a sequence of tokens: words *)
(* (a name in some letter case), the separators "/" and "\", the step "."  *)
(* to the folder one is in, and ".." for whatever valid_world_path         *)
(* refuses: traversal, a drive, an unprintable byte, too great a length.   *)
(* A path is the sequence of its words, <<>> the root or no place at all.  *)
(***************************************************************************)
EXTENDS Naturals, Sequences

CONSTANTS Word,     \* the names that a spelling is made of
          Upper,    \* Upper[w]: w in upper case
          Path,     \* the files and folders the world disk can hold
          Spelling, \* how requests spell them
          Marker    \* the path that makes the disk this entity's: WORLD.ID

--------------------------------------------------------------------------------
(* Spellings *)

\* trim_start_matches: how many c stand in front, and what is behind them.
Leading(s, c) == CHOOSE n \in 0 .. Len(s) : /\ \A i \in 1 .. n : s[i] = c
                                            /\ n < Len(s) => s[n + 1] # c
Trimmed(s, c) == SubSeq(s, Leading(s, c) + 1, Len(s))

Letter(c) == IF c \in Word THEN Upper[c] ELSE IF c = "/" THEN "\\" ELSE c

normalize_world_path(s) ==
  LET t == Trimmed(Trimmed(s, "\\"), "/") IN [i \in 1 .. Len(t) |-> Letter(t[i])]

valid_world_path(s) == \A i \in 1 .. Len(s) : s[i] # ".."

\* The FAT driver of the firmware: it starts at the root, and a separator too
\* many or a "." is no step.
Opens(text) == SelectSeq(text, LAMBDA c : c \in Word)

\* The path that an operation opens for the spelling s.
Opened(s) == Opens(normalize_world_path(s))

ASSUME KiraAssumption ==
  /\ Word \cap {"/", "\\", ".", ".."} = {}
  /\ Upper \in [Word -> Word]
  /\ Marker \in Path /\ \E w \in Word : Marker = <<w>>
  /\ Spelling \subseteq Seq(Word \cup {"/", "\\", ".", ".."}) \ {<<>>}
  /\ \A s \in Spelling : valid_world_path(s) => Opened(s) \in Path

--------------------------------------------------------------------------------
(* The body map and the stages of the gate *)

\* The body map.  Regions are told apart by id, and asked for a capability.
FindCapability(body, verb) == \E r \in body : verb \in r.caps
Knows(body, id) == \E r \in body : r.id = id
Incorporate(body, r) == body \cup {r}

AcquireAgain(body, r) == Incorporate(body, r)   \* mutant: not idempotent

\* acquire_limb: an id that is known already is ignored, whatever it offers.
Acquire(body, r) == IF Knows(body, r.id) THEN body ELSE Incorporate(body, r)

\* An action.  Its size says how its text stands to the bounds, harsh that it
\* holds one of the destructive patterns; to is the second path, if it has two.
Tag == {"screen.speak", "voice.speak", "limb.use", "link.modelm", "memory.erase"}
Request(tag, verb, path, to, size, harsh) ==
  [tag |-> tag, verb |-> verb, path |-> path, to |-> to, size |-> size, harsh |-> harsh]
UseLimb(verb, path, to, harsh) == Request("limb.use", verb, path, to, "fits", harsh)

Authorized(a, body) ==
  /\ a.tag = "voice.speak" => FindCapability(body, "voice.speak")
  /\ a.tag = "limb.use" => FindCapability(body, a.verb)

OnePath == {"fs.read", "fs.write", "fs.mkdir", "fs.delete", "fs.stat"}

Valid(a) ==
  /\ a.size # "long"
  /\ a.tag \in {"screen.speak", "voice.speak", "link.modelm"} => a.size # "empty"
  /\ a.verb \in OnePath \cup {"fs.list", "fs.move"} => valid_world_path(a.path)
  /\ a.verb \in OnePath \cup {"fs.move"} => a.path # <<>>
  /\ a.verb \in {"fs.move", "web.save"} => a.to # <<>> /\ valid_world_path(a.to)

Simulated(a) == a.tag # "memory.erase"

Guards(a) == a.verb \in {"fs.delete", "fs.write", "fs.move"}

MarkerHitAsSpelled(a) == Guards(a) /\ a.path = Marker   \* mutant: before normalizing

\* The volume marker, which fs.delete, fs.write and the source of an fs.move may
\* not name.  The normalized text is compared, not the path it opens; what
\* fs.move and web.save write to is not looked at.
MarkerHit(a) == Guards(a) /\ normalize_world_path(a.path) = Marker

Permitted(a) ==
  /\ a.tag # "memory.erase"
  /\ ~(a.tag = "limb.use" /\ a.harsh)
  /\ ~MarkerHit(a)

Verdict(a, body) ==
  IF ~Authorized(a, body) THEN "authz"
  ELSE IF ~Valid(a) THEN "validate"
  ELSE IF ~Simulated(a) THEN "simulate"
  ELSE IF ~Permitted(a) THEN "policy"
  ELSE "granted"
===============================================================================
