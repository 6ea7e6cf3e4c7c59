------------------------------ MODULE MCImage ------------------------------
(* Image on small instances: see the configurations of this module.        *)
EXTENDS Image

\* Zero, less than the image, the image, more; refused by set_len; wrapping to
\* zero and to one.
SmallSizes == {0, 1, 2, 3, Wrap \div 2, Wrap, Wrap + 1}
=============================================================================
