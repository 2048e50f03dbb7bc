------------------------------ MODULE MCPaging ------------------------------
(***************************************************************************)
(* A directory of four tables of four pages each for Paging.tla: the image *)
(* of the kernel and the module_info page (pages 0 to 3), a task's         *)
(* heap and stack (4 to 7), nothing (8 to 11), the kernel's heap.          *)
(***************************************************************************)
EXTENDS Paging, TLC

\* The stack and the section .module_info, at address 0 (modules/link.ld), stand
\* for the image of a task.
TaskStack == <<7>>
TaskSections == <<0>>

\* The objects of _kmalloc are interchangeable.
Objects == Permutations(PageTable) \cup Permutations(PageDir \ {kernelDir})
=============================================================================
