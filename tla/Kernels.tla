------------------------------ MODULE Kernels ------------------------------
(***************************************************************************)
(* The kernels on the device (cuda/kernels.cu): gemm_cuda with gemm_tiled, *)
(* whose threads share two tiles and meet at __syncthreads(),              *)
(* gemm_tensorcore with wmma_gemm, where a warp works in lockstep on       *)
(* fragments, and attention_cuda with qkv_attention, where every thread    *)
(* works on a row of its own.                                              *)
(*                                                                         *)
(* Numbers are left out: an element of a matrix is named by its row and    *)
(* column, and a sum is the sequence of products <<lhs element, rhs        *)
(* element>> added to it.  Products with the 0.0 that pads a tile add      *)
(* nothing.  A row of scores stands for its softmax.  Thread blocks share nothing but the output, of which each     *)
(* writes elements of its own, so they run one after the other, in any     *)
(* order.  CUDA errors throw before anything is returned.                  *)
(***************************************************************************)
EXTENDS Integers, Sequences, FiniteSets, FiniteSetsExt, SequencesExt

CONSTANTS kGemmTile,   \* tile of gemm_tiled
          Fragment,    \* the 16 of wmma_gemm
          kAttentionBlock,  \* threads of a block of qkv_attention
          MaxKeys,     \* the 256 of qkv_attention's array
          Dims,        \* <<rows, columns, inner>> of the calls, rows and columns > 0
          AttentionDims,    \* <<queries, value_dim, depth, keys, causal>>, keys > 0
          Masked,      \* the -1e9f of a masked score
          Pad          \* the 0.0f of a tile element outside the matrix

VARIABLES kernel,      \* "tiled", "wmma" or "attention", "none" before the call
          dims,        \* of the call
          waiting,     \* thread blocks <<x, y>> of the grid that have not begun
          block,       \* the thread block that runs
          lhs_tile, rhs_tile,  \* __shared__ arrays; Pad also stands for leftovers
          thread,      \* thread[ty, tx]: pc, start of the tile, k, accumulator
          output,      \* device_output: sums by row and column
          result       \* the tensor the host returns
vars == <<kernel, dims, waiting, block, lhs_tile, rhs_tile, thread, output, result>>

rows    == dims[1]
columns == dims[2]
inner   == dims[3]
keys    == dims[4]
causal  == dims[5]

None     == << >>
Below(n) == 0 .. n - 1
TileThreads == Below(kGemmTile) \X Below(kGemmTile)   \* <<ty, tx>>
Empty    == [t \in TileThreads |-> Pad]
Elements == Below(rows) \X Below(columns)

-----------------------------------------------------------------------------
(* The grid of gemm_cuda, x first.                                         *)
Grid == Below((columns + kGemmTile - 1) \div kGemmTile)
          \X Below((rows + kGemmTile - 1) \div kGemmTile)

(* gemm_tensorcore accepts multiples of the fragment only.                 *)
WmmaShape == rows % Fragment = 0 /\ columns % Fragment = 0 /\ inner % Fragment = 0
WmmaGrid  == Below(columns \div Fragment) \X Below(rows \div Fragment)

Row(t)    == block[2] * kGemmTile + t[1]
Column(t) == block[1] * kGemmTile + t[2]

(* Where the loop over the tiles of a thread goes on.                      *)
Enter(s, at) == [s EXCEPT !.pc = IF at < inner THEN "load" ELSE "store", !.at = at, !.k = 0]

NewThread == Enter([pc |-> "load", at |-> 0, k |-> 0, sum |-> << >>], 0)

Init ==
  /\ kernel   = "none"
  /\ dims     = <<0, 0, 0>>
  /\ waiting  = {}
  /\ block    = None
  /\ lhs_tile = Empty
  /\ rhs_tile = Empty
  /\ thread   = [t \in TileThreads |-> [NewThread EXCEPT !.pc = "done"]]
  /\ output   = None
  /\ result   = None

(* The host's part up to the kernel launch.                                *)
Call(k, d) ==
  /\ kernel  = "none"
  /\ kernel' = k
  /\ dims'   = d
  /\ output' = [e \in Elements' |-> None]
  /\ UNCHANGED <<block, lhs_tile, rhs_tile, thread, result>>

gemm_cuda(d) == Call("tiled", d) /\ waiting' = Grid'

gemm_tensorcore(d) == Call("wmma", d) /\ WmmaShape' /\ waiting' = WmmaGrid'

attention_cuda(d) ==
  /\ Call("attention", d)
  /\ d[4] <= MaxKeys
  /\ waiting' = Below((d[1] + kAttentionBlock - 1) \div kAttentionBlock) \X {0}

-----------------------------------------------------------------------------
(* gemm_tiled                                                              *)
Launch(b) ==
  /\ kernel = "tiled" /\ block = None
  /\ b \in waiting
  /\ waiting' = waiting \ {b}
  /\ block'   = b
  /\ thread'  = [t \in TileThreads |-> NewThread]
  /\ UNCHANGED <<kernel, dims, lhs_tile, rhs_tile, output, result>>

Load(t) ==
  /\ thread[t].pc = "load"
  /\ LET at == thread[t].at
     IN  /\ lhs_tile' = [lhs_tile EXCEPT ![t] =
              IF Row(t) < rows /\ at + t[2] < inner THEN <<Row(t), at + t[2]>> ELSE Pad]
         /\ rhs_tile' = [rhs_tile EXCEPT ![t] =
              IF at + t[1] < inner /\ Column(t) < columns THEN <<at + t[1], Column(t)>> ELSE Pad]
  /\ thread' = [thread EXCEPT ![t].pc = "loaded"]
  /\ UNCHANGED <<kernel, dims, waiting, block, output, result>>

(* __syncthreads(): nobody passes before everybody is there.               *)
Sync(from, After(_)) ==
  /\ \A t \in TileThreads : thread[t].pc = from
  /\ thread' = [t \in TileThreads |-> After(thread[t])]
  /\ UNCHANGED <<kernel, dims, waiting, block, lhs_tile, rhs_tile, output, result>>

SyncLoaded == Sync("loaded", LAMBDA s : [s EXCEPT !.pc = "add"])
SyncAdded == Sync("added", LAMBDA s : Enter(s, s.at + kGemmTile))

(* Faulty: no barrier behind the products.                                 *)
AddedNoSync(s) == Enter(s, s.at + kGemmTile)

(* The barrier behind the products.                                        *)
Added(s) == [s EXCEPT !.pc = "added", !.k = 0]

(* One turn of the k loop.                                                 *)
Add(t) ==
  /\ thread[t].pc = "add"
  /\ LET k == thread[t].k
         l == lhs_tile[<<t[1], k>>]
         r == rhs_tile[<<k, t[2]>>]
         s == [thread[t] EXCEPT !.k = k + 1,
                                !.sum = IF l = Pad \/ r = Pad THEN @ ELSE Append(@, <<l, r>>)]
     IN  thread' = [thread EXCEPT ![t] = IF k + 1 < kGemmTile THEN s ELSE Added(s)]
  /\ UNCHANGED <<kernel, dims, waiting, block, lhs_tile, rhs_tile, output, result>>

Store(t) ==
  /\ thread[t].pc = "store"
  /\ thread' = [thread EXCEPT ![t].pc = "done"]
  /\ output' = [e \in Elements |-> IF e = <<Row(t), Column(t)>> THEN <<thread[t].sum>>
                                   ELSE output[e]]
  /\ UNCHANGED <<kernel, dims, waiting, block, lhs_tile, rhs_tile, result>>

BlockEnds ==
  /\ block # None
  /\ \A t \in TileThreads : thread[t].pc = "done"
  /\ block'    = None
  /\ lhs_tile' = Empty
  /\ rhs_tile' = Empty
  /\ UNCHANGED <<kernel, dims, waiting, thread, output, result>>

-----------------------------------------------------------------------------
(* wmma_gemm: a warp loads, multiplies and stores whole fragments.         *)
Products(r, c, from, to) == [i \in 1 .. to - from |-> <<<<r, from + i - 1>>, <<from + i - 1, c>>>>]

WmmaBlock(b) ==
  /\ kernel = "wmma"
  /\ b \in waiting
  /\ waiting' = waiting \ {b}
  /\ output'  = [e \in Elements |->
       IF e[1] \div Fragment = b[2] /\ e[2] \div Fragment = b[1]
       THEN <<FlattenSeq([n \in 1 .. inner \div Fragment |->
                            Products(e[1], e[2], (n - 1) * Fragment, n * Fragment)])>>
       ELSE output[e]]
  /\ UNCHANGED <<kernel, dims, block, lhs_tile, rhs_tile, thread, result>>

-----------------------------------------------------------------------------
(* qkv_attention: one row of scores per thread, weighted by its softmax.   *)
Score(q, k) ==
  IF causal /\ k > q THEN Masked ELSE [i \in 1 .. inner |-> <<<<q, i - 1>>, <<k, i - 1>>>>]

Weight(q, k) == <<[j \in Below(keys) |-> Score(q, j)], k>>

AttentionBlock(b) ==
  /\ kernel = "attention"
  /\ b \in waiting
  /\ waiting' = waiting \ {b}
  /\ output'  = [e \in Elements |->
       IF e[1] - b[1] * kAttentionBlock \in Below(kAttentionBlock)
       THEN <<[k \in 1 .. keys |-> <<Weight(e[1], k - 1), <<k - 1, e[2]>>>>]>>
       ELSE output[e]]
  /\ UNCHANGED <<kernel, dims, block, lhs_tile, rhs_tile, thread, result>>

(* The host: cudaDeviceSynchronize, then the copy to the returned tensor.  *)
CopyBack ==
  /\ kernel # "none" /\ waiting = {} /\ block = None
  /\ result  = None
  /\ result' = output
  /\ UNCHANGED <<kernel, dims, waiting, block, lhs_tile, rhs_tile, thread, output>>

Step ==
  \/ \E b \in waiting : Launch(b) \/ WmmaBlock(b) \/ AttentionBlock(b)
  \/ \E t \in TileThreads : Load(t) \/ Add(t) \/ Store(t)
  \/ SyncLoaded \/ SyncAdded \/ BlockEnds \/ CopyBack

Next ==
  \/ Step
  \/ \E d \in Dims : gemm_cuda(d) \/ gemm_tensorcore(d)
  \/ \E d \in AttentionDims : attention_cuda(d)

(* The device runs what was launched, the host waits for it.               *)
Fairness == WF_vars(Step)

Spec == Init /\ [][Next]_vars /\ Fairness

-----------------------------------------------------------------------------
(* The reference: gemm and attention on the CPU (src/kernels.cpp).  gemm   *)
(* adds the products of one row and column, product[0] to product[size-1], *)
(* tile by tile.                                                           *)
gemm(product, size, tile) ==
  FlattenSeq([t \in 1 .. (size + tile - 1) \div tile |->
    LET from == (t - 1) * tile
    IN  [i \in 1 .. Min({from + tile, size}) - from |-> product[from + i - 1]]])

(* Element <<r, c>> of the transposed key is element <<c, r>> of the key.  *)
transposed_key(r, c) == <<c, r>>

scores(tile, r, c) ==
  IF causal /\ c \in r + 1 .. keys - 1 THEN Masked
  ELSE gemm([i \in Below(inner) |-> <<<<r, i>>, transposed_key(i, c)>>], inner, tile)

softmax(tile, r, c) == <<[k \in Below(keys) |-> scores(tile, r, k)], c>>

attention(tile, r, c) ==
  gemm([k \in Below(keys) |-> <<softmax(tile, r, k), <<k, c>>>>], keys, tile)

Expected(tile, r, c) ==
  IF kernel = "attention" THEN attention(tile, r, c)
  ELSE gemm([i \in Below(inner) |-> <<<<r, i>>, <<i, c>>>>], inner, tile)

(* Whatever the shape and the order of threads and thread blocks, a call   *)
(* of gemm_cuda, gemm_tensorcore or attention_cuda returns, that is no     *)
(* barrier waits for ever, and the tensor it returns holds every element   *)
(* with the products of the CPU function, for any tile, each once and in   *)
(* the same order: no thread reads a tile before it is filled or after it  *)
(* was overwritten, and every row has one thread.                          *)
KernelsExact ==
  (kernel # "none") ~>
    (result # None /\ \A tile \in 1 .. inner + 1 :
       result = [e \in Elements |-> <<Expected(tile, e[1], e[2])>>])
=============================================================================
