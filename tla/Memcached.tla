------------------------------ MODULE Memcached ------------------------------
(***************************************************************************)
(* memcached_api.c of async_task/original: processes that share a cache.   *)
(* A function is one command for the server, or two or three of them, and  *)
(* the server handles the commands of all processes in any order.  It may  *)
(* drop an item at any time, and a command may fail without an effect.     *)
(*                                                                         *)
(* A key is what the code formats: the type and the numbers or strings.    *)
(* Functions on different types of keys do not meet: a behaviour uses      *)
(* those of one topic.                                                     *)
(***************************************************************************)
EXTENDS Integers, Sequences, SequencesExt, FiniteSets, TLC

CONSTANTS Clients,
          Sns,       \* numbers to add to the array, each once
          Packets,   \* packets to cache, each once
          Venders,   \* vender_id; each has one vender_str
          Devs,      \* sn, id or name in the keys of records
          Subs,      \* type, index or devid in the keys of records
          Values,    \* values of records, each stored once
          MaxId      \* bound: of linksrv ids

NoItem == [val |-> <<>>, cas |-> 0]
Topics == {"sn", "packet", "id", "vender", "record"}

-----------------------------------------------------------------------------
\* The functions that set or get one record of a device, a server or a home: the keys they
\* format of d and i, by what is stored there.

\* mc_set_history_index, mc_set_history_context: both in DEV_MAX_INDEX
HistoryKeys(d, i) == [index   |-> <<"DEV_MAX_INDEX", d, i>>,
                      context |-> <<"DEV_MAX_INDEX", d, i, i>>]
\* mc_set_server_wanip, mc_set_server_lanip
ServerKeys(d) == [wanip |-> <<"SERVER_WANIP", d>>, lanip |-> <<"SERVER_LANIP", d>>]
\* mc_set_tcponline, devinfo, link_support, dev_misc, doorbell
DeviceKeys(d) == [online |-> <<"TCPONLINE", d>>, devinfo |-> <<"DEVINFO", d>>,
                  link_support |-> <<"LINK_SUPPORT", d>>, misc |-> <<"DEV_MISC", d>>,
                  doorbell |-> <<"DOORBELL", d>>]
\* mc_set_home_info, mc_set_lansrv_info
HomeKeys(d) == [home |-> <<"HOME_INFO", d>>, lansrv |-> <<"LANSRV_INFO", d>>]
\* mc_set_slave_dev, slave_list, slave_info
SlaveKeys(d) == [slave |-> <<"SLAVEINFO", d>>, slavelist |-> <<"SLAVELIST", d>>,
                 slaveinfo |-> <<"SLAVE_INFO", d>>]
\* mc_set_cache_st, mc_set_rfdev_info
IndexedKeys(d, i) == [cache_st |-> <<"CACHE_ST", d, i>>, rfdev |-> <<"RFDEV_LIST", d, i>>]
\* mc_set_dev_total, mc_set_dev_snapshoot: nothing gets them here
StatisticKeys(d) == [total |-> <<"DEV_TOTAL", d>>, snapshot |-> <<"DEV_SNAPSHOT", d>>]
\* mc_set_xslock_auth (MC_KEY_TYPE_XSLOCK_AUTH is 1), mc_set_auto_bind
BindKeys(d) == [xslock |-> <<"XSLOCK", d, 1>>, autobind |-> <<"AUTOBIND", d>>]
\* mc_set_dev_as
AsKeys(d) == [as |-> <<"SN_AS", d>>]

RecordKeys(d, i) == HistoryKeys(d, i) @@ ServerKeys(d) @@ DeviceKeys(d) @@ HomeKeys(d)
                      @@ SlaveKeys(d) @@ IndexedKeys(d, i) @@ StatisticKeys(d)
                      @@ BindKeys(d) @@ AsKeys(d)
\* Records with a number of their own: one of a device may be the only one of its kind
Numbered == {"index", "context", "cache_st", "rfdev"}
Records ==
  UNION {{<<w, d, IF w \in Numbered THEN i ELSE 0>> : w \in DOMAIN RecordKeys(d, i)} :
         d \in Devs, i \in Subs}
KeyOf(r) == RecordKeys(r[2], r[3])[r[1]]

SharedKeys == {<<"UPDATESN">>, <<"CAR_INDEX">>, <<"SRV">>}
          \cup ({"CAR_KEY"} \X (0 .. Cardinality(Packets)))
          \cup ({"VENDERSTR"} \X Venders) \cup ({"VENDERID"} \X Venders)

VARIABLES
  topic,
  item,      \* of a key that the topic uses: val and cas, 0 if there is none
  unique,    \* of a key: the last cas the server has given
  call,      \* of a client: the function it is in, what it knows
  free,      \* what nobody has asked to add or to cache yet
  returned,  \* numbers that mc_get_clear_sn_array returned, in order
  cached,    \* packets whose mc_cache_packet returned 0, with their keys
  ids,       \* ids taken by servers, in order
  last,      \* of a record: what was last stored as it, 0 if nothing was
  faults     \* what happened: "evicted", "failed", each once, and "raced"

vars == <<topic, item, unique, call, free, returned, cached, ids, last, faults>>

Idle == [fn |-> "none", arg |-> <<>>, cas |-> 0]

Init ==
  /\ topic \in Topics
  /\ item = [k \in (IF topic = "record" THEN {KeyOf(r) : r \in Records} ELSE SharedKeys) |-> NoItem]
  /\ unique = [k \in DOMAIN item |-> 0]
  /\ call = [c \in Clients |-> Idle]
  /\ free = Sns \cup Packets \cup Values /\ last = [x \in IF topic = "record" THEN Records ELSE {} |-> 0] /\ returned = <<>> /\ cached = {} /\ ids = <<>>
  /\ faults = {}

Stored(k) == item[k].cas # 0
Enter(c, fn, arg, cas) == call' = [call EXCEPT ![c] = [fn |-> fn, arg |-> arg, cas |-> cas]]
Leave(c) == call' = [call EXCEPT ![c] = Idle]
\* memcached_set, append, increment, and a cas that the server accepts
Put(k, v) ==
  /\ item' = [item EXCEPT ![k] = [val |-> v, cas |-> unique[k] + 1]]
  /\ unique' = [unique EXCEPT ![k] = @ + 1]
\* A set by a client that took the item to be missing, and there is one
Create(k, v) ==
  /\ Put(k, v)
  /\ faults' = IF Stored(k) THEN faults \cup {"raced"} ELSE faults

\* The last command of a function comes back with an error: a cas that fails counts as
\* a success, what could not be added or cached is reported.
Fail(c) ==
  /\ call[c].fn \notin {"none", "again"} /\ "failed" \notin faults
  /\ faults' = faults \cup {"failed"}
  /\ returned' = IF call[c].fn = "clear" THEN returned \o call[c].arg ELSE returned
  /\ ids' = IF call[c].fn = "cas" THEN Append(ids, call[c].arg) ELSE ids
  /\ free' = IF call[c].fn = "add" THEN free \cup {call[c].arg} ELSE free
  /\ Leave(c)
  /\ UNCHANGED <<item, unique, cached, last>>

\* The server drops an item: memory, a restart, or its time (8 hours for packets)
Evict(k) ==
  /\ Stored(k) /\ "evicted" \notin faults
  /\ item' = [item EXCEPT ![k] = NoItem] /\ faults' = faults \cup {"evicted"}
  /\ UNCHANGED <<unique, call, free, returned, cached, ids, last>>

-----------------------------------------------------------------------------
\* mc_add_sn_arry: append, ...
AddSn(c, sn) ==
  /\ call[c].fn = "none" /\ sn \in free
  /\ free' = free \ {sn}
  /\ IF Stored(<<"UPDATESN">>)
     THEN Put(<<"UPDATESN">>, Append(item[<<"UPDATESN">>].val, sn)) /\ UNCHANGED call
     ELSE Enter(c, "add", sn, 0) /\ UNCHANGED <<item, unique>>
  /\ UNCHANGED <<returned, cached, ids, last, faults>>

\* ... and set, if there is no array
SetSn(c) ==
  /\ call[c].fn = "add"
  /\ Create(<<"UPDATESN">>, <<call[c].arg>>)
  /\ Leave(c)
  /\ UNCHANGED <<free, returned, cached, ids, last>>

\* mc_get_clear_sn_array: get; an array without bytes is no result
GetSns(c) ==
  /\ call[c].fn = "none" \/ call[c].fn = "again"
  /\ LET array == item[<<"UPDATESN">>]
     IN IF array.val = <<>> THEN Leave(c) ELSE Enter(c, "clear", array.val, array.cas)
  /\ UNCHANGED <<item, unique, free, returned, cached, ids, last, faults>>

\* memcached_cas: MEMCACHED_DATA_EXISTS unless the item is still the one of the get
Unchanged(k, cas) == item[k].cas = cas

\* cas, again from the get on conflict_retry.  An item that is gone is no conflict.
ClearSns(c) ==
  /\ call[c].fn = "clear"
  /\ \/ /\ Unchanged(<<"UPDATESN">>, call[c].cas)
        /\ Put(<<"UPDATESN">>, <<>>)
        /\ returned' = returned \o call[c].arg /\ Leave(c)
     \/ /\ ~Stored(<<"UPDATESN">>)
        /\ returned' = returned \o call[c].arg /\ Leave(c) /\ UNCHANGED <<item, unique>>
     \/ /\ Stored(<<"UPDATESN">>) /\ ~Unchanged(<<"UPDATESN">>, call[c].cas)
        /\ Enter(c, "again", <<>>, 0) /\ UNCHANGED <<item, unique, returned>>
  /\ UNCHANGED <<free, cached, ids, last, faults>>

-----------------------------------------------------------------------------
\* mc_get_car_index_key: increment, ...
Increment(c, p) ==
  /\ call[c].fn = "none" /\ p \in free
  /\ free' = free \ {p}
  /\ LET k == <<"CAR_INDEX">>
     IN \/ /\ Stored(k)
           /\ Put(k, item[k].val + 1) /\ Enter(c, "packet", <<p, item[k].val + 1>>, 0)
           /\ UNCHANGED faults
        \/ /\ Stored(k) => "failed" \notin faults
           /\ faults' = IF Stored(k) THEN faults \cup {"failed"} ELSE faults
           /\ Enter(c, "index", p, 0) /\ UNCHANGED <<item, unique>>
  /\ UNCHANGED <<returned, cached, ids, last>>

\* ... and set to 0, if there is no index or the increment failed
SetIndex(c) ==
  /\ call[c].fn = "index"
  /\ Create(<<"CAR_INDEX">>, 0)
  /\ Enter(c, "packet", <<call[c].arg, 0>>, 0)
  /\ UNCHANGED <<free, returned, cached, ids, last>>

\* mc_cache_packet: set of the packet
CachePacket(c) ==
  /\ call[c].fn = "packet"
  /\ Put(<<"CAR_KEY", call[c].arg[2]>>, call[c].arg[1])
  /\ cached' = cached \cup {call[c].arg} /\ Leave(c)
  /\ UNCHANGED <<free, returned, ids, last, faults>>

-----------------------------------------------------------------------------
\* mc_get_linksrv_userid, mc_get_linksrv_homeid: the id and its cas.  A server takes the
\* id after it; the first one stores 1 with mc_set_linksrv_userid, and alone.
GetId(c) ==
  /\ call[c].fn = "none"
  /\ LET k == <<"SRV">>
     IN IF Stored(k)
        THEN /\ item[k].val < MaxId /\ Enter(c, "cas", item[k].val + 1, item[k].cas)
             /\ UNCHANGED <<item, unique, ids>>
        ELSE /\ ids = <<>> /\ Put(k, 1) /\ ids' = <<1>> /\ UNCHANGED call
  /\ UNCHANGED <<free, returned, cached, last, faults>>

\* mc_set_linksrv_userid_cas, mc_set_linksrv_homeid_cas, mc_cas: any result but
\* MEMCACHED_DATA_EXISTS is a success
SetId(c) ==
  /\ call[c].fn = "cas"
  /\ LET k == <<"SRV">>
     IN \/ /\ Unchanged(k, call[c].cas)
           /\ Put(k, call[c].arg) /\ ids' = Append(ids, call[c].arg)
        \/ /\ ~Stored(k)
           /\ ids' = Append(ids, call[c].arg) /\ UNCHANGED <<item, unique>>
        \/ /\ Stored(k) /\ ~Unchanged(k, call[c].cas)
           /\ UNCHANGED <<item, unique, ids>>
  /\ Leave(c)
  /\ UNCHANGED <<free, returned, cached, last, faults>>

-----------------------------------------------------------------------------
\* mc_set_vender: the string of the id, then the id of the string
SetVenderId(c, v) ==
  /\ call[c].fn = "none" /\ ~Stored(<<"VENDERSTR", v>>)
  /\ Put(<<"VENDERID", v>>, v) /\ Enter(c, "vender", v, 0)
  /\ UNCHANGED <<free, returned, cached, ids, last, faults>>
SetVenderStr(c) ==
  /\ call[c].fn = "vender"
  /\ Put(<<"VENDERSTR", call[c].arg>>, call[c].arg) /\ Leave(c)
  /\ UNCHANGED <<free, returned, cached, ids, last, faults>>

\* mc_get_vender_str, mc_get_vender_id: what they return for v, its id as u_int8_t
GetVenderStr(v) == IF Stored(<<"VENDERID", v>>) THEN item[<<"VENDERID", v>>].val ELSE 0
GetVenderId(v) ==
  IF Stored(<<"VENDERSTR", v>>) THEN item[<<"VENDERSTR", v>>].val % 256 ELSE 0

-----------------------------------------------------------------------------
\* A value of a record: its first four bytes, and the rest.  mc_set_history_context stores
\* sizeof(u_int32_t) bytes of its dev_log_t.
Bytes(w, v) == IF w = "context" THEN <<v>> ELSE <<v, v>>

\* One memcached_set of the value, or one that fails
SetRecord(r, v) ==
  /\ v \in free /\ free' = free \ {v}
  /\ \/ /\ Put(KeyOf(r), Bytes(r[1], v)) /\ last' = [last EXCEPT ![r] = v]
        /\ UNCHANGED faults
     \/ /\ "failed" \notin faults /\ faults' = faults \cup {"failed"}
        /\ UNCHANGED <<item, unique, last>>
  /\ UNCHANGED <<call, returned, cached, ids>>

\* mc_delete_devinfo
DeleteDevinfo(d) ==
  /\ Stored(DeviceKeys(d).devinfo)
  /\ item' = [item EXCEPT ![DeviceKeys(d).devinfo] = NoItem]
  /\ last' = [last EXCEPT ![<<"devinfo", d, 0>>] = 0]
  /\ UNCHANGED <<unique, call, free, returned, cached, ids, faults>>

\* memcached_get in the functions: a number or a struct, 0 or NULL without an item
GetRecord(r) == item[KeyOf(r)].val

Next ==
  /\ UNCHANGED topic
  /\ \/ \E c \in Clients :
          \/ topic = "sn" /\ (GetSns(c) \/ \E x \in Sns : AddSn(c, x))
          \/ topic = "packet" /\ \E x \in Packets : Increment(c, x)
          \/ topic = "id" /\ GetId(c)
          \/ topic = "vender" /\ \E v \in Venders : SetVenderId(c, v)
          \/ SetSn(c) \/ ClearSns(c) \/ SetIndex(c) \/ CachePacket(c)
          \/ SetId(c) \/ SetVenderStr(c) \/ Fail(c)
     \/ topic = "record" /\ \E r \in Records, v \in Values : SetRecord(r, v)
     \/ topic = "record" /\ \E d \in Devs : DeleteDevinfo(d)
     \/ \E k \in DOMAIN item : Evict(k)

-----------------------------------------------------------------------------
Pending(fn, x) == \E c \in Clients : call[c].fn = fn /\ call[c].arg = x
Count(s, x) == Cardinality({i \in DOMAIN s : s[i] = x})

\* What the processes may rely on.  A number that was added comes out of
\* mc_get_clear_sn_array, whatever appends meet the clearing: twice only if a cas failed
\* or found no array, and it is lost only if the server dropped the array or two processes
\* made it at the same time.  No two packets get one key and no two servers one id, but for the
\* same reasons.  A vender_str that is found has its vender_id, unless that was dropped, and
\* an id of one byte is read as it was stored.  A record is what was last stored as that
\* record, by whichever process, with no byte of another one: only of a history context are
\* not all bytes kept.
CacheKeeps ==
  /\ topic = "sn" => \A sn \in Sns \ free :
       LET n == Count(returned, sn) + Count(item[<<"UPDATESN">>].val, sn)
                  + (IF Pending("add", sn) THEN 1 ELSE 0)
       IN /\ faults \subseteq {"raced"} => n =< 1
          /\ faults \subseteq {"failed"} => n >= 1
  /\ faults \subseteq {"failed"} => \A x, y \in cached : x # y => x[2] # y[2]
  /\ faults = {} => IsInjective(ids)
  /\ topic = "vender" /\ "evicted" \notin faults =>
       \A v \in Venders :
         Stored(<<"VENDERSTR", v>>) => GetVenderStr(v) = v /\ (v < 256 => GetVenderId(v) = v)
  /\ topic = "record" => \A r \in Records :
       \/ last[r] # 0 /\ GetRecord(r) = <<last[r], last[r]>>
       \/ last[r] # 0 /\ r[1] = "context" /\ GetRecord(r) = <<last[r]>>
       \/ GetRecord(r) = <<>> /\ (last[r] # 0 => "evicted" \in faults)
=============================================================================
