------------------------------- MODULE Message -------------------------------
(***************************************************************************)
(* actx::message (actorx/actor/message.hpp): bytes in a cow_buffer, read   *)
(* from the front, and shared_list_, objects that travel with the message  *)
(* without being serialized.  The message's bytes hold an object's index   *)
(* in the list, an int8_t.                                                 *)
(*                                                                         *)
(* A message is the cow_buffer of its name.  Its user reads what was put,  *)
(* in that order and with the same types.  type_ and sender_ are plain     *)
(* values: see Atoms for the first.                                        *)
(***************************************************************************)
EXTENDS CowBuffer, Integers

CONSTANTS
    IndexLimit,  \* 2^7, numbers an int8_t has from 0
    MaxShared    \* bound: length of shared_list_

ASSUME IndexAssumption == /\ IndexLimit \in Nat \ {0} /\ MaxShared \in Nat
                          /\ Null \notin Handles \X Nat

VARIABLES
    rsize,  \* message -> read_size_
    list,   \* message -> shared_list_
    objs,   \* history: message -> the object put with each byte, or Null
    torn    \* history: messages whose reading restarted after objects were taken

messageVars == <<rsize, list, objs, torn>>

MInit == /\ Init
         /\ rsize = [h \in Handles |-> 0]
         /\ list = [h \in Handles |-> <<>>]
         /\ objs = [h \in Handles |-> <<>>]
         /\ torn = {}

(* (int8_t)k *)
Int8(k) == LET r == k % (2 * IndexLimit)
           IN IF r < IndexLimit THEN r ELSE r - 2 * IndexLimit

(* What a put notes of the bytes it wrote, unless it failed. *)
Note(h, s) == objs' = [objs EXCEPT ![h] = IF wsize'[h] = wsize[h] THEN @ ELSE @ \o s]

PutValue(h, n) == /\ Put(h, Text(h, n))
                  /\ Note(h, [i \in 1 .. n |-> Null])
                  /\ UNCHANGED <<rsize, list, torn>>

(* The object that h puts: its own next one. *)
Object(h) == <<h, Len(list[h])>>

(* Mutant: takes the index after the object was appended. *)
PutShared_Late(h) == /\ Len(list[h]) < MaxShared
                        /\ Put(h, <<Int8(Len(list[h]) + 1)>>)
                        /\ Note(h, <<Object(h)>>)
                        /\ list' = [list EXCEPT ![h] = IF wsize'[h] = wsize[h] THEN @
                                                       ELSE Append(@, Object(h))]
                        /\ UNCHANGED <<rsize, torn>>

(* put of a shared_ptr: puts its index, then keeps it. *)
PutShared(h) == /\ Len(list[h]) < MaxShared
                   /\ Put(h, <<Int8(Len(list[h]))>>)
                   /\ Note(h, <<Object(h)>>)
                   /\ list' = [list EXCEPT ![h] = IF wsize'[h] = wsize[h] THEN @
                                                  ELSE Append(@, Object(h))]
                   /\ UNCHANGED <<rsize, torn>>

(* get_read gives n bytes: no more than the buffer's size_, which is less   *)
(* than what has been written once a copy was made into a recycled buffer   *)
(* and the put behind it failed.  Else get throws and changes nothing.      *)
InSpan(h, n) == ~ isSmall[h] => rsize[h] + n <= size[large[h]]

(* get of a value of n bytes. *)
Get(h, n) == /\ rsize[h] + n <= wsize[h] /\ InSpan(h, n)
             /\ \A i \in rsize[h] + 1 .. rsize[h] + n : objs[h][i] = Null
             /\ rsize' = [rsize EXCEPT ![h] = @ + n]
             /\ UNCHANGED <<vars, list, objs, torn>>

(* shared_list_ without the object of index k, and empty once the last of   *)
(* its objects was taken.                                                   *)
Taken(h, k) == IF k + 1 = Len(list[h]) THEN <<>> ELSE [list[h] EXCEPT ![k + 1] = Null]

(* What the next byte is as an index; where none was written, any.          *)
NextIndex(h) == LET k == Written(h)[rsize[h] + 1]
                IN IF k \in Int THEN {k} ELSE - IndexLimit .. IndexLimit - 1

(* get_raw; with an index that is none, it throws behind its byte. *)
GetRaw(h) == /\ rsize[h] < wsize[h] /\ InSpan(h, 1)
             /\ objs[h][rsize[h] + 1] # Null
             /\ \E k \in NextIndex(h) :
                    list' = [list EXCEPT ![h] = IF k \in 0 .. Len(@) - 1 THEN Taken(h, k) ELSE @]
             /\ rsize' = [rsize EXCEPT ![h] = @ + 1]
             /\ UNCHANGED <<vars, objs, torn>>

-----------------------------------------------------------------------------
(* Copying and moving starts reading from the first byte, but not with the  *)
(* first object.                                                            *)

HasGiven(h) == \E i \in 1 .. rsize[h] : objs[h][i] # Null

Restart(h, other) == torn' = IF HasGiven(other) THEN torn \cup {h} ELSE torn \ {h}

Copy(h, other) == /\ Assign(h, other)
                  /\ rsize' = [rsize EXCEPT ![h] = 0]
                  /\ list' = [list EXCEPT ![h] = list[other]]
                  /\ objs' = [objs EXCEPT ![h] = objs[other]]
                  /\ Restart(h, other)

MoveTo(h, other) == /\ Move(h, other)
                    /\ rsize' = [rsize EXCEPT ![h] = 0, ![other] = 0]
                    /\ list' = [list EXCEPT ![h] = list[other], ![other] = <<>>]
                    /\ objs' = [objs EXCEPT ![h] = objs[other], ![other] = <<>>]
                    /\ Restart(h, other)

(* message::clear *)
ClearAll(h) == /\ Clear(h)
               /\ rsize' = [rsize EXCEPT ![h] = 0]
               /\ list' = [list EXCEPT ![h] = <<>>]
               /\ objs' = [objs EXCEPT ![h] = <<>>]
               /\ torn' = torn \ {h}

(* A torn message is not used any more until it is cleared or assigned to.  *)
MNext == \E h \in Handles :
             \/ /\ h \notin torn
                /\ \/ \E n \in PutSizes : PutValue(h, n) \/ Get(h, n)
                   \/ PutShared(h) \/ GetRaw(h)
             \/ \E other \in Handles \ torn : Copy(h, other) \/ MoveTo(h, other)
             \/ ClearAll(h)

MSpec == MInit /\ [][MNext]_<<vars, messageVars>>

-----------------------------------------------------------------------------
(* Correctness *)

(***************************************************************************)
(* The objects in a message are those whose index has not been read, each  *)
(* where its index says, through copies that write and messages that are   *)
(* filled again as they are read; so get_raw returns the object that was   *)
(* put, and the message then lets go of it.  This is so of messages that   *)
(* were not copied or moved after an object was taken, of IndexLimit       *)
(* objects at most, and as long as all copies of bytes fit.                *)
(***************************************************************************)
SharedInStep ==
    CopiesFit => \A h \in Handles \ torn :
        LET unread == {i \in rsize[h] + 1 .. wsize[h] : objs[h][i] # Null}
            held   == {k \in DOMAIN list[h] : list[h][k] # Null}
        IN Len(list[h]) <= IndexLimit =>
               /\ \A i \in unread : /\ Cells(h)[i] + 1 \in held
                                    /\ list[h][Cells(h)[i] + 1] = objs[h][i]
               /\ held = {Cells(h)[i] + 1 : i \in unread}
=============================================================================
