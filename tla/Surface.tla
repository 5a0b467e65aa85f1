------------------------------ MODULE Surface ------------------------------
(***************************************************************************)
(* One CnedkBufSurface and what is in it: the layout the allocators give   *)
(* its planes and batch elements, and the copies of its data that the      *)
(* device and the CPU see.  The pool a surface comes from is in BufPool.   *)
(*                                                                         *)
(* Planes and batch elements are numbered from 0 as in the code.  Data is  *)
(* one value per plane; Torn is a plane of which only a part was written.  *)
(***************************************************************************)
EXTENDS Integers, FiniteSets

CONSTANTS
  Surfs,        \* surfaces
  CreateParams, \* CnedkBufSurfaceCreateParams the caller may use for each
  Values,       \* data of a plane
  HostSlots,    \* length of host_data_ of a BufSurfaceWrapper (128)
  MaxOps        \* bound on the calls made on the surfaces

Torn == "torn"

MemTypes == {"DEFAULT", "DEVICE", "PINNED", "UNIFIED", "UNIFIED_CACHED",
             "VB", "VB_CACHED", "SYSTEM"}

ColorFormats == {"INVALID", "GRAY8", "YUV420", "NV12", "NV21", "ARGB", "ABGR",
                 "BGRA", "RGBA", "RGB", "BGR", "ARGB1555", "TENSOR"}

\* CnedkBufSurfaceCreateParams, of sizes for which uint32_t suffices.
ASSUME SurfaceConstants ==
  /\ {HostSlots, MaxOps} \subseteq Nat /\ Values # {} /\ Torn \notin Values
  /\ \A s \in Surfs : CreateParams[s] \subseteq
       [mem_type : MemTypes, color_format : ColorFormats, width : Nat, height : Nat, size : Nat,
        batch_size : Nat, force_align_1 : BOOLEAN, is_contiguous : BOOLEAN]

VARIABLES
  unified,  \* info.support_unified_addr: CE3226, else MLU370 or MLU590
  surf,     \* surfaces, or NoSurf
  lost,     \* elements a SyncHostToDevice should have delivered and did not
  last,     \* the last CnedkBufSurfaceCopy or Memset
  ops

surfaceVars == <<unified, surf, lost, last, ops>>

NoSurf == [batch_size |-> 0]
NoCall == [op |-> "none", ret |-> 0]

-----------------------------------------------------------------------------
(* GetColorFormatInfo.                                                      *)

NumPlanes(f) ==
  IF f = "YUV420" THEN 3
  ELSE IF f \in {"NV12", "NV21"} THEN 2
  ELSE IF f \in {"INVALID", "TENSOR"} THEN 0 ELSE 1

BytesPerPix(f) ==
  IF f \in {"ARGB", "ABGR", "BGRA", "RGBA"} THEN 4
  ELSE IF f \in {"RGB", "BGR"} THEN 3
  ELSE IF f = "ARGB1555" THEN 2 ELSE 1

AlignUp(x, a) == ((x + a - 1) \div a) * a

PlaneWidth(f, w, i) == IF f = "YUV420" /\ i > 0 THEN w \div 2 ELSE w
PlaneHeight(h, i) == IF i > 0 THEN h \div 2 ELSE h

PlaneOffset(psize, i) ==
  IF i = 0 THEN 0 ELSE IF i = 1 THEN psize[0] ELSE psize[0] + psize[1]

\* plane_params; all fields of the planes that are not there are 0.
GetColorFormatInfo(f, w, h, aw, ah) ==
  LET in(i) == i < NumPlanes(f)
      pitch == [i \in 0 .. 2 |->
        IF in(i) THEN AlignUp(PlaneWidth(f, w, i) * BytesPerPix(f), aw) ELSE 0]
      psize == [i \in 0 .. 2 |->
        IF in(i) THEN pitch[i] * AlignUp(PlaneHeight(h, i), ah) ELSE 0]
  IN [num_planes |-> NumPlanes(f),
      width  |-> [i \in 0 .. 2 |-> IF in(i) THEN PlaneWidth(f, w, i) ELSE 0],
      height |-> [i \in 0 .. 2 |-> IF in(i) THEN PlaneHeight(h, i) ELSE 0],
      bytes_per_pix |-> [i \in 0 .. 2 |-> IF in(i) THEN BytesPerPix(f) ELSE 0],
      pitch |-> pitch, psize |-> psize,
      offset |-> [i \in 0 .. 2 |-> IF in(i) THEN PlaneOffset(psize, i) ELSE 0]]

NoPlanes == GetColorFormatInfo("INVALID", 0, 0, 1, 1)

-----------------------------------------------------------------------------
(* CreateSurface and the allocators.                                        *)

\* The formats and sizes are looked at for SYSTEM only.
CheckParams(p) ==
  /\ p.batch_size # 0
  /\ IF p.mem_type = "SYSTEM"
     THEN p.color_format \in ColorFormats
          /\ ~(p.width * p.height = 0 /\ p.size = 0)
     ELSE IF unified
     THEN p.mem_type \in {"DEFAULT", "DEVICE", "UNIFIED", "UNIFIED_CACHED", "VB", "VB_CACHED"}
     ELSE p.mem_type \in {"DEFAULT", "DEVICE", "PINNED"}

\* DEFAULT is resolved; of the rest CreateSurface has three allocators.
MemType(p) ==
  IF p.mem_type = "DEFAULT" THEN IF unified THEN "UNIFIED" ELSE "DEVICE"
                            ELSE p.mem_type

\* Create of an allocator: the planes (the result of GetColorFormatInfo is not
\* looked at), the size of an element, and the format that the surface gets.
Layout(p, aw, ah, gray) ==
  LET L == IF p.size # 0 THEN NoPlanes
           ELSE GetColorFormatInfo(p.color_format, p.width, p.height, aw, ah)
  IN [planes |-> L,
      size |-> IF p.size # 0 THEN AlignUp(p.size, aw) ELSE L.psize[0] + L.psize[1] + L.psize[2],
      format |-> IF p.color_format = "INVALID" /\ gray THEN "GRAY8" ELSE p.color_format]

Align(p, a) == IF p.force_align_1 THEN 1 ELSE a

CreateVb(p) == Layout(p, Align(p, 64), Align(p, 16), TRUE)
CreateUnified(p) == Layout(p, Align(p, 64), Align(p, 16), p.size # 0)
CreateDevice(p) == Layout(p, Align(p, 64), Align(p, 16), p.size # 0)
CreateSystem(p) == Layout(p, Align(p, 4), Align(p, 4), p.size # 0)

LayoutOf(p) ==
  IF p.mem_type \in {"VB", "VB_CACHED"} THEN CreateVb(p)
  ELSE IF p.mem_type \in {"UNIFIED", "UNIFIED_CACHED"} THEN CreateUnified(p)
  ELSE IF p.mem_type = "SYSTEM" THEN CreateSystem(p) ELSE CreateDevice(p)

\* Alloc: what is asked for.  MemAllocatorSystem asks for one element.
AllocVb(p) ==
  LET all == LayoutOf(p).size * p.batch_size IN IF p.force_align_1 THEN AlignUp(all, 64) ELSE all
AllocUnified(p) == LayoutOf(p).size * p.batch_size
AllocDevice(p) == LayoutOf(p).size * p.batch_size
AllocSystem(p) == LayoutOf(p).size

Allocated(p) ==
  IF p.mem_type \in {"VB", "VB_CACHED"} THEN AllocVb(p)
  ELSE IF p.mem_type \in {"UNIFIED", "UNIFIED_CACHED"} THEN AllocUnified(p)
  ELSE IF p.mem_type = "SYSTEM" THEN AllocSystem(p) ELSE AllocDevice(p)

Elements(s) == 0 .. (surf[s].batch_size - 1)
PlaneIds(s) == 0 .. (surf[s].plane_params.num_planes - 1)

\* A plane of data that was given without a format counts as one plane.
DataPlanes(L) == 0 .. (IF L.num_planes = 0 THEN 0 ELSE L.num_planes - 1)

\* mem is what the device sees, cpu what a pointer of the CPU leads to.
NewSurface(p) ==
  LET L == LayoutOf(p)
      blank == [i \in 0 .. (p.batch_size - 1) |->
                 [k \in DataPlanes(L.planes) |-> CHOOSE v \in Values : TRUE]]
  IN [mem_type |-> p.mem_type, batch_size |-> p.batch_size,
      color_format |-> L.format,
      width |-> p.width, height |-> p.height,
      plane_params |-> L.planes, data_size |-> L.size,
      allocated |-> Allocated(p), is_contiguous |-> p.is_contiguous,
      mem |-> blank, cpu |-> blank,
      \* elements with a mapped_data_ptr and elements of host_data_
      mapped |-> IF p.mem_type \in {"SYSTEM", "DEVICE"} THEN {} ELSE DOMAIN blank,
      host_data_ |-> {}]

\* A call of the caller, of which there are at most MaxOps.
Call == ops < MaxOps /\ ops' = ops + 1

CreateSurface(s, p) ==
  LET q == [p EXCEPT !.mem_type = MemType(p)] IN
  /\ Call /\ surf[s] = NoSurf
  /\ CheckParams(p) /\ q.mem_type \in {"UNIFIED", "UNIFIED_CACHED", "SYSTEM", "DEVICE"}
  /\ surf' = [surf EXCEPT ![s] = NewSurface(q)]
  /\ last' = NoCall
  /\ UNCHANGED <<unified, lost>>

\* A surface of a pool of video buffers (MemPool::Create checks the same).
CreateFromPool(s, p) ==
  /\ Call /\ surf[s] = NoSurf
  /\ CheckParams(p) /\ p.mem_type \in {"VB", "VB_CACHED"}
  /\ surf' = [surf EXCEPT ![s] = NewSurface(p)]
  /\ last' = NoCall
  /\ UNCHANGED <<unified, lost>>

Destroy(s) ==
  /\ Call /\ surf[s] # NoSurf
  /\ surf' = [surf EXCEPT ![s] = NoSurf]
  /\ lost' = {x \in lost : x[1] # s}
  /\ last' = NoCall
  /\ UNCHANGED unified

-----------------------------------------------------------------------------
(* The CPU's and the device's view.                                         *)

Cached(s) == surf[s].mem_type \in {"UNIFIED_CACHED", "VB_CACHED"}
OnHost(s) == surf[s].mem_type \in {"SYSTEM", "PINNED"}
OneCopy(s) == OnHost(s) \/ surf[s].mem_type \in {"UNIFIED", "VB"}

\* The indices a batch index of -1 stands for.
Range_(s, i) == IF i = -1 THEN Elements(s) ELSE {i}

\* New data in the memory of the device.
SetMem(r, new) ==
  [r EXCEPT !.mem = new,
            !.cpu = IF r.mem_type \in {"SYSTEM", "PINNED", "UNIFIED", "VB"} THEN new ELSE @]

\* Data with v in every plane of element i.
Written(data, i, v) == [data EXCEPT ![i] = [k \in DOMAIN @ |-> v]]

\* The device writes an element (a decoder, a transform).
DeviceWrites(s, i, v) ==
  /\ Call /\ i \in Elements(s)
  /\ surf' = [surf EXCEPT ![s] = SetMem(surf[s], Written(surf[s].mem, i, v))]
  /\ last' = NoCall
  /\ UNCHANGED <<unified, lost>>

\* The CPU's copies of some elements are made again.
Invalidated(r, I) ==
  [r EXCEPT !.cpu = [j \in DOMAIN r.cpu |-> IF j \in I THEN r.mem[j] ELSE r.cpu[j]]]

\* GetHostData: memory the CPU cannot read is copied the first time only.
GetHostData(s, i) ==
  /\ Call /\ i \in Elements(s)
  /\ surf[s].mem_type = "DEVICE" /\ i \notin surf[s].mapped
  /\ surf[s].is_contiguous \/ i < HostSlots
  /\ LET new == IF surf[s].is_contiguous THEN Elements(s) ELSE {i} IN
     surf' = [surf EXCEPT ![s] =
       [Invalidated(surf[s], new) EXCEPT
          !.mapped = @ \cup new,
          !.host_data_ = @ \cup (IF surf[s].is_contiguous THEN {0} ELSE {i})]]
  /\ last' = NoCall
  /\ UNCHANGED <<unified, lost>>

\* The CPU writes through the pointer that GetHostData returned.
HostWrites(s, i, v) ==
  /\ Call /\ i \in Elements(s)
  /\ OnHost(s) \/ i \in surf[s].mapped
  /\ LET new == Written(surf[s].cpu, i, v) IN
     surf' = [surf EXCEPT ![s] = IF OneCopy(s) THEN [surf[s] EXCEPT !.cpu = new, !.mem = new]
                                               ELSE [surf[s] EXCEPT !.cpu = new]]
  /\ last' = NoCall
  /\ UNCHANGED <<unified, lost>>

\* The cache is invalidated (external: cnrtMcacheOperation).
SyncForCpu(s, i) ==
  /\ Call /\ surf[s] # NoSurf /\ Cached(s) /\ Range_(s, i) \subseteq Elements(s)
  /\ surf' = [surf EXCEPT ![s] = Invalidated(surf[s], Range_(s, i))]
  /\ last' = NoCall
  /\ UNCHANGED <<unified, lost>>

\* The elements whose data SyncHostToDevice(-1, i) takes to the device: for
\* cached memory it is SyncForDevice, for device memory host_data_ is copied.
Delivered(s, i) ==
  IF Cached(s) THEN Range_(s, i)
  ELSE IF i # -1 THEN {i} \cap surf[s].host_data_
  ELSE IF surf[s].is_contiguous THEN IF surf[s].host_data_ = {} THEN {} ELSE Elements(s)
  ELSE IF surf[s].batch_size >= HostSlots THEN {} ELSE surf[s].host_data_

SyncHostToDevice(s, i) ==
  LET now == [j \in Elements(s) |->
                IF j \in Delivered(s, i) THEN surf[s].cpu[j] ELSE surf[s].mem[j]]
  IN
  /\ Call /\ surf[s] # NoSurf /\ Range_(s, i) \subseteq Elements(s)
  /\ Cached(s) \/ surf[s].mem_type = "DEVICE"
  /\ surf' = [surf EXCEPT ![s] = [surf[s] EXCEPT !.mem = now]]
  /\ lost' = (lost \ {<<s, j>> : j \in Range_(s, i)}) \cup
       {<<s, j>> : j \in {k \in Range_(s, i) \cap surf[s].mapped : now[k] # surf[s].cpu[k]}}
  /\ last' = NoCall
  /\ UNCHANGED unified

-----------------------------------------------------------------------------
(* BufSurfaceService::Memset and Copy.  last notes where the parts of the   *)
(* allocation end that a call touches.                                      *)

Memset(s, i, plane, v) ==
  LET L == surf[s].plane_params
      at == IF plane = -1 THEN PlaneIds(s) ELSE {plane}
  IN
  /\ Call /\ surf[s] # NoSurf
  /\ Range_(s, i) \subseteq Elements(s) /\ at \subseteq PlaneIds(s)
  /\ surf' = [surf EXCEPT ![s] = SetMem(surf[s],
       [j \in Elements(s) |-> [k \in DOMAIN surf[s].mem[j] |->
          IF j \in Range_(s, i) /\ k \in at THEN v ELSE surf[s].mem[j][k]]])]
  /\ last' = [op |-> "Memset", ret |-> 0, to |-> s,
              ends |-> [x \in {s} |-> {j * surf[s].data_size + L.offset[k] + L.psize[k] :
                                         j \in Range_(s, i), k \in at}]]
  /\ UNCHANGED <<unified, lost>>

\* The pointers are moved to the offset of a plane after its rows are copied,
\* so the rows of plane k go to where plane k - 1 is.
StartPlane(k) == IF k = 0 THEN 0 ELSE k - 1

\* The number of rows is height[i] with i the index of the element.
RowsCopied(a, i) == a.height[i]

\* The rows of plane k are those of plane t in both surfaces.
RowsOf(a, b, k, t) == a.pitch[k] = a.pitch[t] /\ b.pitch[k] = b.pitch[t]

\* Plane t of element i of a target with layout b, when layouts differ in size.
CopiedPlane(a, b, i, t, old, new) ==
  LET writers == {k \in 0 .. (a.num_planes - 1) : StartPlane(k) = t}
      rows == RowsCopied(a, i)
      spill == t = 2 /\ rows * b.pitch[2] > b.psize[1]
  IN IF spill THEN Torn
     ELSE IF writers = {} \/ rows = 0 THEN old
     ELSE IF \A k \in writers : RowsOf(a, b, k, t) /\ rows >= a.height[t] THEN new ELSE Torn

\* Element i of b after the copy.
CopiedElement(a, b, i) ==
  IF surf[a].data_size = surf[b].data_size
  THEN [k \in DOMAIN surf[b].mem[i] |-> surf[a].mem[i][k]]
  ELSE IF surf[a].plane_params.num_planes = 0 THEN surf[b].mem[i]
  ELSE [k \in DOMAIN surf[b].mem[i] |->
          CopiedPlane(surf[a].plane_params, surf[b].plane_params, i, k,
                      surf[b].mem[i][k], surf[a].mem[i][k])]

\* Where the writes to element i, or the reads of it, end in surface s.
Reach(a, b, s, i) ==
  LET L == surf[a].plane_params
      x == surf[s].plane_params
      rows == RowsCopied(L, i)
  IN IF surf[a].data_size = surf[b].data_size THEN {surf[a].data_size}
     ELSE {x.offset[StartPlane(k)] + (rows - 1) * x.pitch[k] + L.width[k] * L.bytes_per_pix[k] :
             k \in {k \in 0 .. (L.num_planes - 1) : rows > 0}}

Ends(a, b, I) ==
  [s \in {a, b} |-> UNION {{i * surf[s].data_size + e : e \in Reach(a, b, s, i)} : i \in I}]

\* The caller copies between surfaces of one format and resolution, and in
\* batches of at most CNEDK_BUF_MAX_PLANES elements when the layouts differ,
\* since RowsCopied reads height[i].  The code compares the batch sizes and
\* nothing else.
MayCopy(a, b) ==
  /\ a # b /\ surf[a] # NoSurf /\ surf[b] # NoSurf
  /\ surf[a].batch_size = surf[b].batch_size
  /\ surf[a].color_format = surf[b].color_format
  /\ surf[a].width = surf[b].width /\ surf[a].height = surf[b].height
  /\ DOMAIN surf[a].mem[0] = DOMAIN surf[b].mem[0]
  /\ surf[a].data_size = surf[b].data_size \/ surf[a].batch_size <= 3

\* Rows are copied between planes that have a width, a pitch and an offset.
HasPlanes(L) ==
  \A k \in 0 .. (L.num_planes - 1) :
    L.width[k] # 0 /\ L.pitch[k] # 0 /\ (k > 0 => L.offset[k] # 0)
Copyable(a, b) ==
  LET n == surf[a].plane_params.num_planes IN
  \/ surf[a].data_size = surf[b].data_size
  \/ n = 0
  \/ /\ HasPlanes(surf[a].plane_params) /\ HasPlanes(surf[b].plane_params)
     /\ n = surf[b].plane_params.num_planes

\* Mutant: the cache keeps what it had.
CopyNoSync(a, b) ==
  /\ Call /\ MayCopy(a, b) /\ Copyable(a, b)
  /\ surf' = [surf EXCEPT ![b] = SetMem(surf[b], [i \in Elements(b) |-> CopiedElement(a, b, i)])]
  /\ last' = [op |-> "Copy", ret |-> 0, from |-> a, to |-> b, ends |-> Ends(a, b, Elements(b))]
  /\ UNCHANGED <<unified, lost>>

\* A target that the CPU caches is invalidated at the end.
Copy(a, b) ==
  /\ Call /\ MayCopy(a, b) /\ Copyable(a, b)
  /\ LET r == SetMem(surf[b], [i \in Elements(b) |-> CopiedElement(a, b, i)]) IN
     surf' = [surf EXCEPT ![b] = IF Cached(b) THEN Invalidated(r, Elements(b)) ELSE r]
  /\ last' = [op |-> "Copy", ret |-> 0, from |-> a, to |-> b, ends |-> Ends(a, b, Elements(b))]
  /\ UNCHANGED <<unified, lost>>

\* A plane is wrong at element 0, or the driver fails at element n: the elements
\* before it are copied.
CopyFails(a, b, n) ==
  /\ Call /\ MayCopy(a, b) /\ n \in Elements(b) /\ (Copyable(a, b) \/ n = 0)
  /\ surf' = [surf EXCEPT ![b] = SetMem(surf[b], [i \in Elements(b) |->
       IF i < n THEN CopiedElement(a, b, i) ELSE surf[b].mem[i]])]
  /\ last' = [op |-> "Copy", ret |-> -1, from |-> a, to |-> b, ends |-> Ends(a, b, 0 .. (n - 1))]
  /\ UNCHANGED <<unified, lost>>

-----------------------------------------------------------------------------
SurfaceInit ==
  /\ unified \in BOOLEAN
  /\ surf = [s \in Surfs |-> NoSurf]
  /\ lost = {} /\ last = NoCall /\ ops = 0

SurfaceStep(s) ==
  \/ \E p \in CreateParams[s] : CreateSurface(s, p) \/ CreateFromPool(s, p)
  \/ Destroy(s)
  \/ \E i \in Elements(s), v \in Values : DeviceWrites(s, i, v) \/ HostWrites(s, i, v)
  \/ \E i \in Elements(s) : GetHostData(s, i)
  \/ \E i \in Elements(s) \cup {-1} : SyncForCpu(s, i) \/ SyncHostToDevice(s, i)
  \/ \E i \in Elements(s) \cup {-1}, k \in -1 .. 2, v \in Values : Memset(s, i, k, v)
  \/ \E b \in Surfs : Copy(s, b) \/ \E n \in Elements(b) : CopyFails(s, b, n)

SurfaceNext == \E s \in Surfs : SurfaceStep(s)

SurfaceSpec == SurfaceInit /\ [][SurfaceNext]_surfaceVars

-----------------------------------------------------------------------------
Live == {s \in Surfs : surf[s] # NoSurf}

SurfaceTypeOK ==
  /\ unified \in BOOLEAN /\ ops \in 0 .. MaxOps
  /\ lost \subseteq Surfs \X Nat
  /\ \A s \in Live :
       /\ surf[s].mem_type \in MemTypes \ {"DEFAULT", "PINNED"}
       /\ surf[s].batch_size > 0 /\ surf[s].mapped \subseteq Elements(s)
       /\ surf[s].host_data_ \subseteq surf[s].mapped
       /\ \A i \in Elements(s) : \A k \in DOMAIN surf[s].mem[i] :
            {surf[s].mem[i][k], surf[s].cpu[i][k]} \subseteq Values \cup {Torn}

\* Only MemAllocatorSystem with a batch gets less memory than it hands out.
ShortOfMemory(s) == surf[s].mem_type = "SYSTEM" /\ surf[s].batch_size > 1

\* The planes of an element do not overlap, every row of a plane is inside it,
\* and the elements are inside the memory that was allocated
\* (GetColorFormatInfo, MemAllocator*::Create and Alloc).
LayoutFits ==
  \A s \in Live :
    LET L == surf[s].plane_params IN
    /\ \A k \in PlaneIds(s) :
         /\ L.width[k] * L.bytes_per_pix[k] <= L.pitch[k]
         /\ L.pitch[k] * L.height[k] <= L.psize[k]
         /\ L.offset[k] + L.psize[k] <= surf[s].data_size
    /\ \A j, k \in PlaneIds(s) : j < k => L.offset[j] + L.psize[j] <= L.offset[k]
    /\ ~ShortOfMemory(s) => surf[s].batch_size * surf[s].data_size <= surf[s].allocated

\* The chroma planes have half the rows, rounded down, but all are copied: twice
\* the rows of a plane are one less when the height is odd.
OddRows ==
  /\ last.op = "Copy" /\ surf[last.from].data_size # surf[last.to].data_size
  /\ surf[last.from].color_format = "YUV420" /\ surf[last.from].height % 2 = 1

\* Memset and Copy touch nothing behind the memory of the surfaces they are
\* given, also when the layouts differ, but for OddRows.
AccessInBounds ==
  last.op # "none" /\ ~OddRows =>
    \A s \in DOMAIN last.ends : ~ShortOfMemory(s) =>
      \A e \in last.ends[s] : e <= surf[s].allocated

\* A copy that returns 0 has copied everything when the data sizes agree.
\* When they differ it has copied the first plane of the first element, unless
\* the planes have different pitches; the chroma is not copied.
CopyFaithful ==
  last.op = "Copy" /\ last.ret = 0 =>
    LET a == surf[last.from]
        b == surf[last.to]
    IN /\ a.data_size = b.data_size => a.mem = b.mem
       /\ a.data_size # b.data_size /\ a.plane_params.num_planes \in {1, 2}
            => a.mem[0][0] = b.mem[0][0]

\* What a copy wrote is what the CPU reads from the target, unless the target
\* is device memory of which the wrapper keeps an older copy.
CopyVisible ==
  last.op = "Copy" /\ last.ret = 0 /\ surf[last.to].mem_type # "DEVICE" =>
    surf[last.to].cpu = surf[last.to].mem

\* SyncHostToDevice delivers what the CPU wrote.  The exceptions are an element
\* other than the first of a contiguous surface that is named alone, since
\* host_data_ is set for the first element only, and a batch for which
\* host_data_ is too short.
HostWritesDelivered ==
  \A x \in lost : IF surf[x[1]].is_contiguous THEN x[2] # 0 ELSE surf[x[1]].batch_size >= HostSlots

\* Surfaces are laid out inside their memory, fills and copies stay there, and what
\* was copied or written on one side is what the other side reads.
SurfaceCorrect ==
  SurfaceTypeOK /\ LayoutFits /\ AccessInBounds /\ CopyFaithful /\ CopyVisible /\ HostWritesDelivered

-----------------------------------------------------------------------------
(* The inductive invariant of SurfaceCorrect *)

IsSurface(r) ==
  r = [mem_type |-> r.mem_type, batch_size |-> r.batch_size, color_format |-> r.color_format,
       width |-> r.width, height |-> r.height, plane_params |-> r.plane_params,
       data_size |-> r.data_size, allocated |-> r.allocated, is_contiguous |-> r.is_contiguous,
       mem |-> r.mem, cpu |-> r.cpu, mapped |-> r.mapped, host_data_ |-> r.host_data_]

ShapeTyped(r) ==
  /\ r.mem_type \in MemTypes \ {"DEFAULT", "PINNED"} /\ r.batch_size \in Nat \ {0}
  /\ r.color_format \in ColorFormats /\ {r.width, r.height, r.data_size, r.allocated} \subseteq Nat
  /\ r.is_contiguous \in BOOLEAN

\* The planes are those of the format, or data of a given size has none.
Alignments == {1, 4, 16, 64}
LaidOut(r) ==
  /\ \/ r.plane_params = NoPlanes
     \/ \E aw, ah \in Alignments :
          r.plane_params = GetColorFormatInfo(r.color_format, r.width, r.height, aw, ah)
          /\ r.data_size = r.plane_params.psize[0] + r.plane_params.psize[1] + r.plane_params.psize[2]
  /\ r.mem_type # "SYSTEM" \/ r.batch_size = 1 => r.batch_size * r.data_size <= r.allocated

DataOf(r) == [0 .. (r.batch_size - 1) -> [DataPlanes(r.plane_params) -> Values \cup {Torn}]]
KeptData(r) == r.mem \in DataOf(r) /\ r.cpu \in DataOf(r)

\* What the wrapper copied from the device: all of a contiguous surface, under the
\* first element, or each element on its own.
HostCopies(r) ==
  /\ r.mapped \subseteq 0 .. (r.batch_size - 1)
  /\ IF r.mem_type # "DEVICE" THEN r.host_data_ = {}
     ELSE IF ~r.is_contiguous THEN r.host_data_ = r.mapped
     ELSE IF r.mapped = {} THEN r.host_data_ = {}
     ELSE r.host_data_ = {0} /\ r.mapped = 0 .. (r.batch_size - 1)

SurfaceInv ==
  /\ unified \in BOOLEAN /\ ops \in 0 .. MaxOps
  /\ surf = [s \in Surfs |-> surf[s]]
  /\ \A s \in Live : /\ IsSurface(surf[s]) /\ ShapeTyped(surf[s]) /\ LaidOut(surf[s])
                     /\ KeptData(surf[s]) /\ HostCopies(surf[s])
  /\ lost \subseteq Surfs \X Nat /\ \A x \in lost : x[1] \in Live
  /\ AccessInBounds /\ CopyFaithful /\ CopyVisible /\ HostWritesDelivered
==============================================================================
