-------------------------------- MODULE Addr --------------------------------
(***************************************************************************)
(* Arithmetic on global addresses (addr.c, handshake.h).  Page sizes are   *)
(* powers of two, so "& (page_size - 1)" is the remainder of the division  *)
(* by the page size and "& ~(page_size - 1)" takes that remainder away.    *)
(***************************************************************************)
EXTENDS Integers

PageOffset(page_size, a) == a % page_size
PageStart(page_size, a)  == a - (a % page_size)

(* Bug: the objects of a page are counted from address 0.                  *)
TagFromZero(page_size, type_size, offset) == (offset \div type_size) * type_size

(* The start of the object that contains offset.                           *)
extract_tag(page_size, type_size, offset) ==
  PageStart(page_size, offset)
    + (PageOffset(page_size, offset) \div type_size) * type_size

(* The pool is [addr, mem_upper_bound).                                    *)
mem_upper_bound(addr, page_size, page_count) == addr + page_size * page_count
=============================================================================
