----------------------------- MODULE MCNodeLive -----------------------------
(* The lock of the node, RWAccess with three threads, and what must happen *)
(* in the end in the components that have one thread wait for another:     *)
(*   "lock"   RWAccess, which stays in its initial state in the others;    *)
(*   "chain"  BlockChain with two threads and the valid blocks of          *)
(*            MCBlockChain;                                                *)
(*   "store"  LevelDB with three writers, a memtable of one batch, a       *)
(*            closing and one fault;                                       *)
(*   "keys"   WalletKeys with one key, whose timeout is 0 or 1.            *)
EXTENDS RWAccess, Integers, Sequences, FiniteSetsExt, TLC

CONSTANT Parts, None   \* Parts: the instances that run

VARIABLES part,
          stored, index, dblast, last, next, unspent, txIndex, frozen, stable, txStable, at,
          blk, owner, ref, idx, path, cur, mark, nOpt, rem, add, rn, rp, mode, broken,
          exact, nCrash, nFault, state, step, res, writers_, woken, group, seq,
          last_sequence_, logs, logfile_number_, mem_, imm_, tables, current, manifest,
          next_file_number_, pending_outputs_, held, scheduled, bg, bg_error_, acked,
          faults, closes, keys, db, clock, timers, nTimerIdAlloc, fired, signed, up, nStop

Tree == {"g", "a1", "a2", "a3", "b1", "b2"}
Parents == [b \in Tree \ {"g"} |-> CASE b \in {"a1", "b1"} -> "g" [] b = "a2" -> "a1"
                                     [] b = "a3" -> "a2" [] b = "b2" -> "b1"]
Chains == [b \in Tree |-> CASE b = "g" -> {"g"} [] b \in {"a1", "b1"} -> {"g", b}
                            [] b = "a2" -> {"g", "a1", b} [] b = "a3" -> {"g", "a1", "a2", b}
                            [] b = "b2" -> {"g", "b1", b}]
Times == [b \in Tree |-> CASE b = "g" -> 0 [] b \in {"a1", "a2", "b1"} -> 1
                           [] b = "b2" -> 2 [] b = "a3" -> 3]
Trusts == [b \in Tree |-> CASE b = "g" -> 0 [] b \in {"a1", "b1"} -> 1 [] b = "a2" -> 2
                            [] b = "b2" -> 3 [] b = "a3" -> 4]
Txs == Tree \cup {"t1", "t2", "t4"}
Outputs == Tree \cup {"p", "q", "r"}
Vtxs == [b \in Tree |-> <<b>> \o CASE b = "a1" -> <<"t1">> [] b = "a2" -> <<"t2">>
                                    [] b = "b2" -> <<"t1", "t4">> [] OTHER -> <<>>]
Inputs == [t \in Txs |-> CASE t = "t1" -> {"g"} [] t \in {"t2", "t4"} -> {"p"} [] OTHER -> {}]
Results == [t \in Txs |-> CASE t = "t1" -> {"p"} [] t = "t2" -> {"q"} [] t = "t4" -> {"r"}
                            [] OTHER -> {t}]
Threads == {"c1", "c2"}
Writers == {"w1", "w2", "w3"}

Chain == INSTANCE BlockChain WITH Block <- Tree, Genesis <- "g", Parent <- Parents, Chain <- Chains, Time <- Times,
    ChainTrust <- Trusts, Tx <- Txs, Out <- Outputs, Vtx <- Vtxs, Ins <- Inputs,
    Outs <- Results, Thread <- Threads, MaxCrash <- 0, MaxFault <- 0, pc <- at
Store == INSTANCE LevelDB WITH Writer <- Writers, SyncWriter <- {"w1"}, Reader <- {}, write_buffer_size <- 0,
    MaxGroup <- 2, kL0_CompactionTrigger <- 2, kL0_SlowdownWritesTrigger <- 1,
    kL0_StopWritesTrigger <- 2, Faults <- {"newlog", "log", "sync", "table", "manifest"},
    MaxFault <- 1, MaxClose <- 1, mode <- state, pc <- step
Keys == INSTANCE WalletKeys WITH Key <- {"k"}, Pass <- {"p"}, Signer <- {"s"}, Delay <- {0, 1}, MaxClock <- 6,
    MaxTimer <- 3, MaxStop <- 1, store <- keys

ASSUME Keys!KeyConstants

blockChainVars == <<stored, index, dblast, last, next, unspent, txIndex, frozen, stable, txStable, at, blk,
    owner, ref, idx, path, cur, mark, nOpt, rem, add, rn, rp, mode, broken, exact, nCrash,
    nFault>>
BlockChainIdle == stored = 0 /\ index = 0 /\ dblast = 0 /\ last = 0 /\ next = 0 /\ unspent = 0 /\
    txIndex = 0 /\ frozen = 0 /\ stable = 0 /\ txStable = 0 /\ at = 0 /\ blk = 0 /\
    owner = 0 /\ ref = 0 /\ idx = 0 /\ path = 0 /\ cur = 0 /\ mark = 0 /\ nOpt = 0 /\
    rem = 0 /\ add = 0 /\ rn = 0 /\ rp = 0 /\ mode = 0 /\ broken = 0 /\ exact = 0 /\
    nCrash = 0 /\ nFault = 0
levelDBVars == <<state, step, res, writers_, woken, group, seq, last_sequence_, logs, logfile_number_,
    mem_, imm_, tables, current, manifest, next_file_number_, pending_outputs_, held,
    scheduled, bg, bg_error_, acked, faults, closes>>
LevelDBIdle == state = 0 /\ step = 0 /\ res = 0 /\ writers_ = 0 /\ woken = 0 /\ group = 0 /\
    seq = 0 /\ last_sequence_ = 0 /\ logs = 0 /\ logfile_number_ = 0 /\ mem_ = 0 /\
    imm_ = 0 /\ tables = 0 /\ current = 0 /\ manifest = 0 /\ next_file_number_ = 0 /\
    pending_outputs_ = 0 /\ held = 0 /\ scheduled = 0 /\ bg = 0 /\ bg_error_ = 0 /\
    acked = 0 /\ faults = 0 /\ closes = 0
walletKeysVars == <<keys, db, clock, timers, nTimerIdAlloc, fired, signed, up, nStop>>
WalletKeysIdle == keys = 0 /\ db = 0 /\ clock = 0 /\ timers = 0 /\ nTimerIdAlloc = 0 /\ fired = 0 /\
    signed = 0 /\ up = 0 /\ nStop = 0
sumVars == <<part, vars, blockChainVars, levelDBVars, walletKeysVars>>

SumInit ==
    /\ part \in Parts
    /\ Init
    /\ \/ part = "lock" /\ BlockChainIdle /\ LevelDBIdle /\ WalletKeysIdle
       \/ part = "chain" /\ Chain!Init /\ LevelDBIdle /\ WalletKeysIdle
       \/ part = "store" /\ Store!Init /\ BlockChainIdle /\ WalletKeysIdle
       \/ part = "keys" /\ Keys!Init /\ BlockChainIdle /\ LevelDBIdle

SumNext ==
    /\ UNCHANGED part
    /\ \/ part = "lock" /\ Next /\ UNCHANGED <<blockChainVars, levelDBVars, walletKeysVars>>
       \/ part = "chain" /\ Chain!Next /\ UNCHANGED <<vars, levelDBVars, walletKeysVars>>
       \/ part = "store" /\ Store!Next /\ UNCHANGED <<vars, blockChainVars, walletKeysVars>>
       \/ part = "keys" /\ Keys!Next /\ UNCHANGED <<vars, blockChainVars, levelDBVars>>

SumSpec == SumInit /\ [][SumNext]_sumVars
(* The fairness of RWAccess; threads of the chain and of the databases go  *)
(* on when they can, the clock runs and the timers call back.              *)
LiveSpec ==
  /\ SumSpec /\ Fairness
  /\ \A t \in Threads : WF_blockChainVars(part = "chain" /\ Chain!Step(t))
  /\ \A w \in Writers : WF_levelDBVars(part = "store" /\ Store!WriteStep(w))
  /\ WF_levelDBVars(part = "store" /\ Store!Background)
  /\ WF_levelDBVars(part = "store" /\ Store!Closed) /\ WF_levelDBVars(part = "store" /\ Store!Open)
  /\ WF_walletKeysVars(part = "keys" /\ Keys!Tick) /\ WF_walletKeysVars(part = "keys" /\ Keys!Timer)

(* The fork of the chain does not stay locked, every write to a database   *)
(* returns, whatever the background thread meets, closing one ends, and a  *)
(* key that was unlocked with a timeout is locked again.                   *)
WorkEnds == /\ []<>(part = "chain" => owner = None)
            /\ \A w \in Writers : []<>(part = "store" => ~Store!Writing(w))
            /\ []<>(part = "store" => state # "closing")
            /\ []<>(part = "keys" => ~Keys!OpenFor("k"))
=============================================================================
