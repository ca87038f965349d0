---------------------------- MODULE StaticLayout ----------------------------
(***************************************************************************)
(* ExtraStaticSearcher: the layout of one SSD index file.                  *)
(* SelectPostingOffset packs the postings into pages so that what a        *)
(* posting has over whole pages never crosses a page boundary,             *)
(* OutputSSDIndexFile writes the head information and the postings in that *)
(* order, LoadingHeadInfo reads the head information back, and a search    *)
(* reads the pages of a posting.                                           *)
(***************************************************************************)
EXTENDS Integers, Sequences, SequencesExt, FiniteSets, FiniteSetsExt

CONSTANTS
  Count,      \* bound: postings in the file
  MaxSize,    \* bound: vectors of a posting
  PageSize,
  InfoSize,   \* m_vectorInfoSize
  PageLimit,  \* m_searchPostingPageLimit
  Compress    \* m_enableDataCompression
StaticLayoutAssumption ==
  /\ {Count, PageSize, InfoSize, PageLimit} \subseteq Nat \ {0} /\ MaxSize \in Nat /\ Compress \in BOOLEAN

Ids == 0 .. Count - 1
Ceil(n, d) == (n + d - 1) \div d

VARIABLES
  sizes,   \* p_postingListSizes
  bytes,   \* p_postingListBytes
  step,    \* place, list, load, done, or error
  rest,    \* listRestSize
  page,    \* p_postPageNum
  offset,  \* p_postPageOffset
  order,   \* p_postingOrderInIndex
  curr,    \* currPageNum and currOffset
  head,    \* the head information written, in cells of two bytes
  data,    \* the bytes written after it, each posting's own or padding
  next,    \* the posting of order to write next, or the list to load next
  at,      \* where the next field of head is read
  infos    \* m_listInfos

vars == <<sizes, bytes, step, rest, page, offset, order, curr, head, data, next, at, infos>>

Padding == <<-1, -1>>
NoInfo == [bytes |-> 0, count |-> 0, pages |-> 0, page |-> 0, offset |-> 0]

Init ==
  /\ sizes \in [Ids -> 0 .. MaxSize]
  /\ IF Compress
     THEN bytes \in {b \in [Ids -> 0 .. MaxSize * InfoSize] :
                       \A i \in Ids : b[i] <= sizes[i] * InfoSize /\ (b[i] = 0 <=> sizes[i] = 0)}
     ELSE bytes = [i \in Ids |-> sizes[i] * InfoSize]
  /\ step = "place"
  /\ rest = {i \in Ids : bytes[i] # 0}
  /\ page = [i \in Ids |-> 0] /\ offset = [i \in Ids |-> 0]
  /\ order = <<>> /\ curr = [page |-> 0, offset |-> 0]
  /\ head = <<>> /\ data = <<>> /\ next = 1 /\ at = 1
  /\ infos = [i \in Ids |-> NoInfo]

(* The set is ordered by what is over whole pages, largest first.          *)
Over(i) == bytes[i] % PageSize
Before(i, j) == Over(i) > Over(j) \/ (Over(i) = Over(j) /\ i < j)
Room == PageSize - curr.offset
Fitting == {i \in rest : Over(i) <= Room}
Best == CHOOSE i \in Fitting : \A j \in Fitting \ {i} : Before(i, j)

Fits == Fitting # {} /\ ~(Room # PageSize /\ Over(Best) = 0)

NextPage ==
  /\ step = "place" /\ rest # {} /\ ~Fits
  /\ curr' = [page |-> curr.page + 1, offset |-> 0]
  /\ UNCHANGED <<sizes, bytes, step, rest, page, offset, order, head, data, next, at, infos>>

PlaceHere(i, whole) ==
  LET full == curr.offset + Over(i) = PageSize
  IN  /\ page' = [page EXCEPT ![i] = curr.page]
      /\ offset' = [offset EXCEPT ![i] = curr.offset]
      /\ order' = Append(order, i)
      /\ curr' = [page |-> curr.page + (IF full THEN 1 ELSE 0) + whole,
                  offset |-> IF full THEN 0 ELSE curr.offset + Over(i)]
      /\ rest' = rest \ {i}
      /\ step' = IF curr.offset + Over(i) > PageSize THEN "error" ELSE step
      /\ UNCHANGED <<sizes, bytes, head, data, next, at, infos>>
Place ==
  /\ step = "place" /\ rest # {} /\ Fits
  /\ PlaceHere(Best, bytes[Best] \div PageSize)

(* A size_t, an int and a uint16_t, lowest cell first.                     *)
Size64(n) == <<n, 0, 0, 0>>
Int32(n) == <<n, 0>>
Short16(n) == <<n>>

HeadOf(i) ==
  (IF Compress THEN Size64(bytes[i]) ELSE <<>>)
    \o Int32(page[i]) \o Short16(offset[i]) \o Int32(sizes[i]) \o Short16(Ceil(bytes[i], PageSize))
Zeros(n) == [k \in 1 .. n |-> Padding]
PadTo(n) == (PageSize - (n % PageSize)) % PageSize

WriteHead ==
  /\ step = "place" /\ rest = {}
  /\ head' = FlattenSeq([k \in 1 .. Count |-> HeadOf(k - 1)])
  /\ step' = "list"
  /\ UNCHANGED <<sizes, bytes, rest, page, offset, order, curr, data, next, at, infos>>

Target(i) == page[i] * PageSize + offset[i]
WriteList ==
  /\ step = "list" /\ next <= Len(order)
  /\ LET i == order[next]
         gap == Target(i) - Len(data)
     IN  IF gap < 0 \/ gap > PageSize
         THEN step' = "error" /\ UNCHANGED <<data, next>>
         ELSE /\ data' = data \o Zeros(gap) \o [k \in 1 .. bytes[i] |-> <<i, k>>]
              /\ next' = next + 1 /\ step' = step
  /\ UNCHANGED <<sizes, bytes, rest, page, offset, order, curr, head, at, infos>>

WriteEnd ==
  /\ step = "list" /\ next > Len(order)
  /\ data' = data \o Zeros(PadTo(Len(data)))
  /\ step' = "load" /\ next' = 0
  /\ UNCHANGED <<sizes, bytes, rest, page, offset, order, curr, head, at, infos>>

(* LoadingHeadInfo runs before LoadIndex takes m_enableDataCompression     *)
(* from the options: it reads as if there were no compression.             *)
LoadsCompressed == FALSE
Field(k, cells) == IF cells = 1 THEN head[k] ELSE head[k] + 65536 * head[k + 1]
MinOf(a, b) == IF a < b THEN a ELSE b
CountUnlimited(n, pages) == n
CountLimited(n, pages) == MinOf(n, (MinOf(pages, PageLimit) * PageSize) \div InfoSize)
LoadInfo ==
  /\ step = "load" /\ next < Count
  /\ LET p == IF LoadsCompressed THEN at + 4 ELSE at
         pageNum == Field(p, 2)
         pageOffset == Field(p + 2, 1)
         size == Field(p + 3, 2)
         pages == Field(p + 5, 1)
         count == IF LoadsCompressed THEN size ELSE CountLimited(size, pages)
     IN  /\ infos' = [infos EXCEPT ![next] =
              [bytes |-> IF LoadsCompressed THEN Field(at, 2) ELSE size * InfoSize,
               count |-> count, page |-> pageNum, offset |-> pageOffset,
               pages |-> IF LoadsCompressed THEN pages ELSE Ceil(InfoSize * count + pageOffset, PageSize)]]
         /\ at' = p + 6
  /\ next' = next + 1
  /\ UNCHANGED <<sizes, bytes, step, rest, page, offset, order, curr, head, data>>

LoadEnd ==
  /\ step = "load" /\ next = Count
  /\ step' = "done"
  /\ UNCHANGED <<sizes, bytes, rest, page, offset, order, curr, head, data, next, at, infos>>

Next == NextPage \/ Place \/ WriteHead \/ WriteList \/ WriteEnd \/ LoadInfo \/ LoadEnd
Spec == Init /\ [][Next]_vars

(* The pages of a posting read into a buffer, and the elements in it; a    *)
(* read past the end of the file is refused.                               *)
Buffer(i) ==
  LET first == infos[i].page * PageSize
      n == infos[i].pages * PageSize
  IN  IF first + n <= Len(data) THEN SubSeq(data, first + 1, first + n) ELSE <<>>
Content(i) ==
  LET n == IF Compress THEN infos[i].bytes ELSE infos[i].count * InfoSize
      whole == infos[i].offset + n <= Len(Buffer(i))
  IN  IF whole THEN SubSeq(Buffer(i), infos[i].offset + 1, infos[i].offset + n) ELSE <<>>

-----------------------------------------------------------------------------
TypeOK ==
  /\ step \in {"place", "list", "load", "done", "error"}
  /\ rest \subseteq Ids /\ Range(order) \subseteq Ids
  /\ curr.page \in Nat /\ curr.offset \in 0 .. PageSize - 1

(* The file is written without meeting the errors it tests for: no posting *)
(* crosses an extra page, none is placed before the end of the last, and   *)
(* no gap is larger than a page.                                           *)
NeverRefused == step # "error"

(* Once loaded, the pages a search reads hold the whole file's share of    *)
(* the posting: from its first vector, in order, as many as the page limit *)
(* leaves, and nothing of another posting.                                 *)
Expected(i) ==
  IF Compress THEN bytes[i]
  ELSE InfoSize * MinOf(sizes[i], (MinOf(Ceil(sizes[i] * InfoSize, PageSize), PageLimit) * PageSize) \div InfoSize)
ReadsBack == step = "done" => \A i \in Ids : Content(i) = [k \in 1 .. Expected(i) |-> <<i, k>>]

(* No posting costs a search more pages than its vectors fill.             *)
FewPages ==
  step = "done" => \A i \in Ids : sizes[i] * InfoSize <= PageLimit * PageSize =>
                                    infos[i].pages = Ceil(bytes[i], PageSize)
=============================================================================
