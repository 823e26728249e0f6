------------------------------ MODULE InsnTable ------------------------------
(***************************************************************************)
(* The instruction table of libudis86/itab.c, without the mnemonics nobody *)
(* asks for.  An instruction is the name of its format: EvGv is an         *)
(* instruction with the operands O_Ev and O_Gv.                            *)
(***************************************************************************)
EXTENDS Integers, Sequences

ud_itab_0_149 ==
  <<"none", "none", "Ib", "Ib", "none", "EbGb", "EvGv", "GbEb", "GvEv", "ALIb", "rAXsIz",
    "EbIb_rxb", "EbIb_rxb_inv64", "EvsIz", "EvsIb", "EbGb", "EvGv", "GbEb", "GvEv", "ALIb",
    "rAXsIz", "EbIb_rxb", "EbIb_rxb_inv64", "EvsIz", "EvsIb", "VW", "VxHxWx_rxbl", "VW",
    "VxHxWx_rxbl", "VW", "VxHxWx", "VW", "VxHxWx", "VW", "VxHxWx", "VW", "VxHxWx", "VW", "VxHxWx",
    "VW", "VxWx_rxb", "VW", "VxWx_rxb", "VW", "VxHxWx", "VW", "VxWx_rxb", "VWIb", "VxWxIb",
    "EbGb", "EvGv", "GbEb", "GvEv", "ALIb", "rAXsIz", "EbIb", "EbIb_rxb_inv64", "EvsIz", "EvsIb",
    "VW", "VxHxWx_rxbl", "VW", "VxHxWx", "VW", "VxHxWx", "VW", "VxHxWx", "EwGw", "GqEd", "Ev",
    "Eq", "Fv", "Jz", "Av", "none_w", "none_w", "none_w", "none", "none", "M_wrxb", "none",
    "none", "none", "none", "GvEv", "GvEv", "GvEv", "GvEv", "GvEv", "GvEv", "GvEv", "GvEv",
    "GvEv", "GvEv", "GvEv", "GvEv", "GvEv", "GvEv", "GvEv", "GvEv", "EbGb", "EvGv", "GbEb",
    "GvEv", "ALIb", "rAXsIz", "EbIb_rxb", "EbIb_rxb_inv64", "EvsIz", "EvsIb", "VWIb",
    "VxHxWxIb_rxbl", "VWIb", "VxHxWxIb_rxbl", "none", "none_w", "none_w", "VWIb", "VxHxWxIb",
    "none_w", "VWIb", "VxHxWxIb", "EbGb", "EvGv", "M", "M", "M", "VsdWsd", "VsdWsd", "VW",
    "VxWx_rxb", "none", "VWdq", "VxWdq", "VW", "VxWx_rxb", "VdqW", "VdqWx", "PW", "VdqW", "VdqWx",
    "VQ", "VQ", "VW", "VxWx", "VWdq", "VxWdq", "PMqU", "GyMqU", "GyMqU">>

ud_itab_150_299 ==
  <<"VW", "VxHxWx", "VEy", "VxHxEy", "VEy", "VxHxEy", "VW", "VxHxWx", "GyMdU", "GyMdU", "VdqW",
    "VdqWx", "PW", "VW", "VxWx", "PW", "GyMqU", "GyMqU", "GyMdU", "GyMdU", "none_w", "none_w",
    "none_w", "none_inv64", "none_inv64", "R0z", "R1z", "R2z", "R3z", "R4z", "R5z", "R6z", "R7z",
    "Eb_wrxb", "Ev", "Ev", "Eb_wrxb", "VW", "VxHxWx_rxbl", "VW", "VxHxWx", "VMqU_rxb", "VxHxMqU",
    "VMdU_rxb", "VxHxMdU", "VWIb", "VxHxWxIb", "VWIb", "VxHxWxIb_rxbl", "none", "IwIb", "MdRyVIb",
    "MdRyVxIb", "none", "none", "Mq", "Md", "ST0ST0", "ST1ST0", "ST2ST0", "ST3ST0", "ST4ST0",
    "ST5ST0", "ST6ST0", "ST7ST0", "ST0ST0", "ST0ST1", "ST0ST2", "ST0ST3", "ST0ST4", "ST0ST5",
    "ST0ST6", "ST0ST7", "ST0ST0", "ST1ST0", "ST2ST0", "ST3ST0", "ST4ST0", "ST5ST0", "ST6ST0",
    "ST7ST0", "Mt", "Mt", "none", "none", "ST0ST0", "ST0ST1", "ST0ST2", "ST0ST3", "ST0ST4",
    "ST0ST5", "ST0ST6", "ST0ST7", "ST0ST0", "ST0ST1", "ST0ST2", "ST0ST3", "ST0ST4", "ST0ST5",
    "ST0ST6", "ST0ST7", "ST0ST0", "ST0ST1", "ST0ST2", "ST0ST3", "ST0ST4", "ST0ST5", "ST0ST6",
    "ST0ST7", "ST0ST0", "ST0ST1", "ST0ST2", "ST0ST3", "ST0ST4", "ST0ST5", "ST0ST6", "ST0ST7",
    "ST0ST0", "ST0ST1", "ST0ST2", "ST0ST3", "ST0ST4", "ST0ST5", "ST0ST6", "ST0ST7", "ST0ST0",
    "ST0ST1", "ST0ST2", "ST0ST3", "ST0ST4", "ST0ST5", "ST0ST6", "ST0ST7", "ST0ST0", "ST0ST1",
    "ST0ST2", "ST0ST3", "ST0ST4", "ST0ST5", "ST0ST6", "ST0ST7", "ST0ST0", "ST0ST1", "ST0ST2",
    "ST0ST3", "ST0ST4", "ST0ST5", "ST0ST6", "ST0ST7", "ST0ST0">>

ud_itab_300_449 ==
  <<"ST0ST1", "ST0ST2", "ST0ST3", "ST0ST4", "ST0ST5", "ST0ST6", "ST0ST7", "Md", "Mq", "ST0ST0",
    "ST0ST1", "ST0ST2", "ST0ST3", "ST0ST4", "ST0ST5", "ST0ST6", "ST0ST7", "ST0", "ST1", "ST2",
    "ST3", "ST4", "ST5", "ST6", "ST7", "ST0", "ST1", "ST2", "ST3", "ST4", "ST5", "ST6", "ST7",
    "ST0ST0", "ST0ST1", "ST0ST2", "ST0ST3", "ST0ST4", "ST0ST5", "ST0ST6", "ST0ST7", "ST0ST0",
    "ST0ST1", "ST0ST2", "ST0ST3", "ST0ST4", "ST0ST5", "ST0ST6", "ST0ST7", "ST0ST0", "ST0ST1",
    "ST0ST2", "ST0ST3", "ST0ST4", "ST0ST5", "ST0ST6", "ST0ST7", "Md", "Mq", "ST0ST0", "ST0ST1",
    "ST0ST2", "ST0ST3", "ST0ST4", "ST0ST5", "ST0ST6", "ST0ST7", "ST0", "ST1", "ST2", "ST3", "ST4",
    "ST5", "ST6", "ST7", "none", "none", "none", "Mq", "ST0ST0", "ST1ST0", "ST2ST0", "ST3ST0",
    "ST4ST0", "ST5ST0", "ST6ST0", "ST7ST0", "Md", "ST0ST0", "ST0ST1", "ST0ST2", "ST0ST3",
    "ST0ST4", "ST0ST5", "ST0ST6", "ST0ST7", "ST0ST0", "ST1ST0", "ST2ST0", "ST3ST0", "ST4ST0",
    "ST5ST0", "ST6ST0", "ST7ST0", "Mq", "ST0ST0", "ST1ST0", "ST2ST0", "ST3ST0", "ST4ST0",
    "ST5ST0", "ST6ST0", "ST7ST0", "Md", "ST0ST0", "ST0ST1", "ST0ST2", "ST0ST3", "ST0ST4",
    "ST0ST5", "ST0ST6", "ST0ST7", "ST0ST0", "ST1ST0", "ST2ST0", "ST3ST0", "ST4ST0", "ST5ST0",
    "ST6ST0", "ST7ST0", "none", "ST0", "ST1", "ST2", "ST3", "ST4", "ST5", "ST6", "ST7", "ST0",
    "ST1", "ST2", "ST3", "ST4", "ST5", "ST6", "ST7", "Mw", "Md", "Mw">>

ud_itab_450_599 ==
  <<"Md", "Mw", "Mq", "Md", "none", "none", "Md", "Mw", "Md", "Mw", "Md", "Mw", "Md", "Mw", "Md",
    "Mw", "Mw", "Md", "Mw", "Mq", "Md", "Md", "Mq", "Mw", "Mt", "Mq", "Md", "ST0", "ST1", "ST2",
    "ST3", "ST4", "ST5", "ST6", "ST7", "none", "none", "none", "none", "none", "none", "none",
    "Mw", "M", "Mq", "ST0ST0", "ST1ST0", "ST2ST0", "ST3ST0", "ST4ST0", "ST5ST0", "ST6ST0",
    "ST7ST0", "Md", "ST0ST0", "ST0ST1", "ST0ST2", "ST0ST3", "ST0ST4", "ST0ST5", "ST0ST6",
    "ST0ST7", "ST0ST0", "ST1ST0", "ST2ST0", "ST3ST0", "ST4ST0", "ST5ST0", "ST6ST0", "ST7ST0",
    "Md", "Mw", "none", "none", "none", "none", "none", "none", "M", "M", "none", "none", "none",
    "none", "Mt", "Mq", "Md", "ST0", "ST1", "ST2", "ST3", "ST4", "ST5", "ST6", "ST7", "ST0",
    "ST1", "ST2", "ST3", "ST4", "ST5", "ST6", "ST7", "ST0", "ST1", "ST2", "ST3", "ST4", "ST5",
    "ST6", "ST7", "ST0", "ST1", "ST2", "ST3", "ST4", "ST5", "ST6", "ST7", "Md", "Mq", "ST0",
    "ST1", "ST2", "ST3", "ST4", "ST5", "ST6", "ST7", "Mw", "M", "Mw", "AX", "Md", "Mq", "ST0ST0",
    "ST0ST1", "ST0ST2", "ST0ST3", "ST0ST4", "ST0ST5", "ST0ST6", "ST0ST7", "ST0ST0", "ST1ST0",
    "ST2ST0", "ST3ST0", "ST4ST0", "ST5ST0", "ST6ST0">>

ud_itab_600_749 ==
  <<"ST7ST0", "ST0ST0", "ST1ST0", "ST2ST0", "ST3ST0", "ST4ST0", "ST5ST0", "ST6ST0", "ST7ST0",
    "Mq", "ST0ST0", "ST0ST1", "ST0ST2", "ST0ST3", "ST0ST4", "ST0ST5", "ST0ST6", "ST0ST7",
    "ST0ST0", "ST1ST0", "ST2ST0", "ST3ST0", "ST4ST0", "ST5ST0", "ST6ST0", "ST7ST0", "Md",
    "ST0ST0", "ST1ST0", "ST2ST0", "ST3ST0", "ST4ST0", "ST5ST0", "ST6ST0", "ST7ST0", "none", "ST0",
    "ST1", "ST2", "ST3", "ST4", "ST5", "ST6", "ST7", "ST0", "ST1", "ST2", "ST3", "ST4", "ST5",
    "ST6", "ST7", "none", "none", "ST0ST0", "ST0ST1", "ST0ST2", "ST0ST3", "ST0ST4", "ST0ST5",
    "ST0ST6", "ST0ST7", "ST0", "ST1", "ST2", "ST3", "ST4", "ST5", "ST6", "ST7", "ST0", "ST1",
    "ST2", "ST3", "ST4", "ST5", "ST6", "ST7", "M_wrxb", "M_wrxb", "none", "none", "none", "none",
    "Ev", "Eb_wrxb", "ALIb", "eAXIb", "ALDX", "eAXDX", "GvEv", "Eb_wrxb", "Ev", "GvEvIz",
    "GvEvsIb", "R0z", "R1z", "R2z", "R3z", "R4z", "R5z", "R6z", "R7z", "Ev", "Eb_wrxb",
    "none_str", "none_str", "none_str", "none", "none", "Ib", "none_inv64", "none", "GdMo",
    "GqMo", "M", "none", "GdMo", "GqMo", "none_w", "none_w", "none_w", "Jb", "Jz", "Jb", "Jz",
    "Jb", "Jz", "Jb", "Jz", "Jb", "Jz", "Jb", "Jz", "Jb", "Jz", "Jb", "Jz", "Jb", "Jz", "Jb",
    "Jz", "Jb", "Jz", "Jb", "Jz", "Jb", "Jz", "Jb", "Jz">>

ud_itab_750_899 ==
  <<"Jb", "Jz", "Jb", "Jz", "Jb", "Jb", "Jb", "Ev_wrxb_def64", "Fv", "Jz", "Av", "Jb_def64",
    "none", "GvEw", "Md_wrxb", "GvM", "GvM_wrxb", "GvM", "GzM", "GzM", "M", "GvM_wrxb", "none",
    "none", "none", "none", "none", "none", "none", "none", "none", "M", "Ew", "Ew", "Ew", "none",
    "none_str", "none_w_str", "none_w_str", "none_w_str", "Jb", "Jb", "Jb", "GvEw", "Ew", "PN",
    "VW", "VxHxWx_rxbl", "VW", "VxHxWx_rxbl", "VW", "VxHxWx", "VW", "VxHxWx", "none", "none",
    "none", "none", "none", "none", "none", "none", "VW", "VxHxWx_rxbl", "VW", "VxHxWx",
    "VMqU_rxb", "VxHxMqU", "VMdU_rxb", "VxHxMdU", "none", "none", "EbIb", "EvsIz", "EbGb", "EvGv",
    "GbEb", "GvEv", "MwRvS", "SMwRv", "ALOb", "rAXOv", "ObAL", "OvrAX", "R0bIb", "R1bIb", "R2bIb",
    "R3bIb", "R4bIb", "R5bIb", "R6bIb", "R7bIb", "R0vIv", "R1vIv", "R2vIv", "R3vIv", "R4vIv",
    "R5vIv", "R6vIv", "R7vIv", "RC", "RD", "CR", "DR", "VW", "VxWx", "WV", "WxVx", "VW", "VxWx",
    "WV", "WxVx", "PEy", "PEy", "VEy", "VxEy", "VEy", "VxEy", "EyP", "EyP", "EyV", "EyVx", "EyV",
    "EyVx", "VM", "VxHxM", "MV", "MVx_rxb", "VM", "VxHxM", "MV", "MVx_rxb", "VU", "VxHxUx", "VM",
    "MV", "VM", "MV", "VU", "VxUx", "GdU", "GdUx", "GdU", "GdUx_rb", "MV", "MVx", "MGy", "MV",
    "MVx", "MV">>

ud_itab_900_1049 ==
  <<"MVx", "MP", "PEq", "VEq", "VxEq", "EqP", "EqV", "EqVx", "VW_wrxb", "VxWx_wrxb", "WV_wrxb",
    "WxVx_wrxb", "PQ_wrxb", "QP", "none_str", "none_w_str", "none_w_str", "VMqU_rxb", "WV",
    "none_w_str", "VMdU_rxb", "WV", "GvEb", "GyEw", "VW", "VxWx", "WV", "WxVx", "VW", "VxWx",
    "WV", "WxVx", "GvEb", "GyEw", "Eb_wrxb", "Ev", "VW", "VxHxWx_rxbl", "VW", "VxHxWx_rxbl", "VW",
    "VxHxWx", "VW", "VxHxWx", "none", "Eb_wrxb", "Ev", "M", "M", "M", "M", "M", "M", "M",
    "Eb_wrxb", "Ev", "EbGb", "EvGv", "GbEb", "GvEv", "ALIb", "rAXsIz", "EbIb_rxb", "EvsIz",
    "EbIb_rxb", "EvsIb", "VW", "VxHxWx_rxbl", "VW", "VxHxWx_rxbl", "IbAL", "IbeAX", "DXAL",
    "DXeAX", "none_str", "none_str", "none_str", "VW", "VxHxWx_rxbl", "PQ", "VW", "VxHxWx_rxbl",
    "PQ", "VW", "VxHxWx_rxbl", "PQ", "VW", "VxHxWx_rxbl", "PQ", "PQ", "VW", "VxHxWx_rxbl", "PQ",
    "VW", "VxHxWx_rxbl", "PQ", "VW", "VxHxWx", "PQ", "VW", "VxHxWx", "PQ", "VW", "VxHxWx", "PQ",
    "VW", "VxHxWx", "VW", "VxHxWx", "PQ", "VW", "VxHxWx", "PQ", "VW", "VxHxWx", "PQ", "VW",
    "VxHxWx", "PQ", "PQ", "VW", "VxHxWx", "PQ", "VW", "VxHxWx", "PQ", "VW", "VxHxWx", "VW",
    "VxHxWx", "PQ", "VW", "VxHxWx", "PQ", "VW", "VxHxWx", "PQ", "MbRvVIb", "MbRvVxIb", "EdVIb",
    "EdVxIb", "EdVIb", "EdVxIb", "EqVIb", "EqVxIb", "GyUIb", "GyUxIb", "GyNIb", "MwRvVIb",
    "MwRvVxIb">>

ud_itab_1050_1199 ==
  <<"VMbRdIb", "PMwRyIb", "VMwRyIb", "VxMwRyIb", "VEdIb", "VEdIb", "VEqIb", "VHMbRdIb", "VHEdIb",
    "VHEdIb", "VHEqIb", "PQ", "VW", "VxHxWx", "VW", "VxHxWx", "PQ", "PQ", "VW", "VxHxWx", "VW",
    "VxHxWx", "PQ", "VW", "VxHxWx", "PQ", "GdU_wrb", "GdUx_wrb", "GdN", "PQ", "VW", "VxHxWx",
    "VW", "VxHxWx", "PQ", "PQ", "VW", "VxHxWx", "ES", "SS", "DS", "GS", "FS", "R0v", "R1v", "R2v",
    "R3v", "R4v", "R5v", "R6v", "R7v", "Ev_wrxb_def64", "none_inv64", "none_inv64", "none",
    "none", "none_def64", "none_def64", "VW", "VxHxWx", "PQ", "M_wrxb", "M_wrxb", "M_wrxb",
    "M_wrxb", "M_wrxb", "M_wrxb", "M_wrxb", "M_wrxb", "M_wrxb", "M_wrxb", "M_wrxb", "M_wrxb",
    "VW", "VxHxWx", "PQ", "PQIb", "VW", "PQ", "UIb", "NIb", "VW", "PQ", "UIb", "NIb", "VW", "PQ",
    "UIb", "NIb", "PQ", "VW", "VxHxWx", "UIb", "HxUxIb", "NIb", "NIb", "VW", "VxHxWx", "PQ",
    "UIb", "HxUxIb", "NIb", "PQ", "VW", "VxHxWx", "UIb", "HxUxIb", "NIb", "PQ", "VW", "VxHxWx",
    "UIb", "HxUxIb", "NIb", "PQ", "VW", "VxHxWx", "UIb", "HxUxIb", "VW", "VxHxWx", "PQ", "VW",
    "VxHxWx", "PQ", "PQ", "VW", "VxHxWx", "PQ", "VW", "VxHxWx", "PQ", "VW", "VxHxWx", "PQ", "VW",
    "VxHxWx", "PQ", "VW", "VxHxWx", "VW", "VxHxWx", "PQ", "VW", "VxHxWx", "PQ", "VW", "VxHxWx",
    "PQ", "VW">>

ud_itab_1200_1349 ==
  <<"VxHxWx", "PQ", "VW", "VxHxWx", "PQ", "VW", "VxHxWx", "PQ", "PQ", "PQ", "PQ", "PQ", "PQ",
    "PQ", "PQ", "PQ", "PQ", "PQ", "PQ", "PQ", "PQ", "PQ", "PQ", "PQ", "PQ", "PQ", "PQ", "PQ",
    "PQ", "PQ", "PQ", "PQ", "ES", "CS", "SS", "DS", "GS", "FS", "R0v", "R1v", "R2v", "R3v", "R4v",
    "R5v", "R6v", "R7v", "sIz", "Ev_wrxb_def64", "sIb", "none_inv64", "none_inv64", "none",
    "none_w_def64", "none", "none_w_def64", "none_w_def64", "VW", "VxHxWx", "PQ", "EbIb", "EvIb",
    "EbI1", "EbCL", "EvCL", "EvI1", "EbI1", "EvIb", "EbIb", "EvI1", "EbCL", "EvCL", "EbIb",
    "EbI1", "EvI1", "EbCL", "EvCL", "EvIb", "EbI1", "EbIb", "EvIb", "EvI1", "EbCL", "EvCL", "VW",
    "VxWx", "VW", "VxWx_rxb", "none", "none", "none", "none", "none", "none", "Iw", "none", "Iw",
    "none", "none", "VW", "VxWx", "VW", "VxWx_rxb", "none", "none_inv64", "EvI1", "EbIb", "EbI1",
    "EvIb", "EbCL", "EvCL", "EbIb", "EvIb", "EbI1", "EbCL", "EvCL", "EvIb", "EbCL_rxb", "EvI1",
    "EbI1", "EbIb", "EvCL", "EvI1", "EvIb", "EbCL", "EvI1", "EbI1", "EbIb", "EvCL", "EbGb",
    "EvGv", "GbEb", "GvEv", "ALIb", "rAXsIz", "EbIb_rxb", "EvsIz", "EbIb_rxb_inv64", "EvsIb",
    "none", "none_w", "none_w", "none_w", "Eb", "Eb", "Eb", "Eb", "Eb", "Eb", "Eb", "Eb">>

ud_itab_1350_1499 ==
  <<"Eb", "Eb", "Eb", "Eb", "Eb", "Eb", "Eb", "Eb", "none", "none", "none", "none", "none",
    "none", "none", "none", "M", "EvGvIb", "EvGvCL", "EvGvIb", "EvGvCL", "VWIb", "VxHxWxIb_rxbl",
    "VWIb", "VxHxWxIb", "M", "MwRv", "MwRv", "MwRv", "VW", "VxWx", "VW", "VxWx_rxb", "VW",
    "VxHxWx", "VW", "VxHxWx", "none", "none", "none", "none", "none", "Md_wrxb", "Md_wrxb",
    "none_str", "none_w_str", "none_w_str", "none_w_str", "MwRv", "EbGb", "EvGv", "GbEb", "GvEv",
    "ALIb", "rAXsIz", "EbIb_rxb", "EvsIz", "EbIb_rxb_inv64", "EvsIb", "VW", "VxHxWx_rxbl", "VW",
    "VxHxWx_rxbl", "VW", "VxHxWx", "VW", "VxHxWx", "none", "none", "none", "none", "none", "none",
    "none", "EbIb", "EbGb", "EvGv", "ALIb", "rAXsIz", "EbIb", "EvsIz", "EvIz", "VW", "VxWx_rxb",
    "VW", "VxWx_rxb", "none", "VW", "VxHxWx_rxbl", "VW", "VxHxWx", "VW", "VxHxWx", "VW",
    "VxHxWx_rxbl", "Ew", "Ew", "none", "Mq", "Mq", "Mq", "Mq", "none", "none", "none", "EyGy",
    "GyEy", "none", "none", "none", "none", "none", "none", "none", "EbGb", "EvGv", "EbGb",
    "EvGv", "R0vrAX", "R1vrAX", "R2vrAX", "R3vrAX", "R4vrAX", "R5vrAX", "R6vrAX", "R7vrAX",
    "none", "none_w", "EbGb", "EvGv", "GbEb", "GvEv", "ALIb", "rAXsIz", "EbIb_rxb", "EvsIz",
    "EbIb_rxb_inv64", "EvsIb", "VW", "VxHxWx_rxbl", "VW", "VxHxWx", "none", "none", "none",
    "none", "none", "M_wrxb", "M_wrxb", "none">>

ud_itab_1500_1649 ==
  <<"none", "none", "none", "VWIb", "VxHxWxIb", "none", "WV_rxbl", "VW_rxbl", "VU", "VxUx", "PU",
    "VW", "VxWx", "WV", "VN", "PQ", "VW", "VxHxWx", "VW", "VxHxWx", "PQ", "PQ", "VW", "VWIb",
    "VxWxIb", "VWIb", "VxWxIb", "VWIb", "VxWxIb", "UIb", "HxUxIb", "UIb", "HxUxIb", "VW",
    "VxHxWx", "VW", "VW", "VxHxWx_rxbl", "VW", "VxHxWx_rxbl", "VW", "VxHxWx_rxbl", "VW",
    "VxHxWx_rxbl", "VMdIb", "VxHxMdIb", "VM", "VxM", "VW", "VW", "VW", "VxWx", "VW", "VxWx", "VW",
    "VxWx", "VW", "VxWx", "PQ", "VW", "VxWx", "PQ", "VW", "VxWx", "PQ", "VW", "VxWx", "PQ", "VW",
    "VxHxWx", "PQ", "VW", "VxHxWx", "PQ", "VW", "VxHxWx", "PQ", "VW", "VxHxWx", "PQ", "VW",
    "VxHxWx", "PQ", "VW", "VxHxWx", "PQ", "VW", "VxHxWx", "PQ", "VW", "VxHxWx", "PQ", "VW",
    "VxHxWx", "PQ", "VW", "VxHxWx", "PQ", "VW", "VxHxWx", "PQ", "VW", "VxHxWx", "PQIb", "VWIb",
    "VxHxWxIb", "VW", "VW", "VxHxWx", "VW", "VxHxWx", "VW", "VxHxWx", "VW", "VxHxWx", "VW",
    "VxHxWx", "VW", "VxHxWx", "VW", "VxHxWx", "VW", "VxHxWx", "VW", "VxHxWx", "VW", "VxHxWx",
    "VW", "VxWx_rxb", "VWIb", "VxWxIb_rxbl", "VWIb", "VxWxIb_rxbl", "VWIb", "VxHxWxIb", "VWIb",
    "VxHxWxIb", "VWIb", "VxHxWxIb_rxbl", "VWIb", "VxHxWxIb", "VW", "VW", "GvM", "GvEv", "GvEv",
    "R0y", "R1y", "R2y", "R3y">>

ud_itab_1650_1745 ==
  <<"R4y", "R5y", "R6y", "R7y", "EvIb", "EvGv", "EvGv", "EvIb", "EvGv", "EvIb", "EvGv", "EvIb",
    "VWIb", "VxHxWxIb", "VWIb", "VxHxWxIb_rxbl", "VM_wrxb", "VxM_wrxbl", "VW_wrxb",
    "VxHxWx_wrxbl", "VMqU", "VxMqU", "VMdU", "VxMdU", "VMwU", "VxMwU", "VMqU", "VxMqU", "VMdU",
    "VxMdU", "VMqU", "VMqU", "VxMqU", "VMdU", "VxMdU", "VMwU", "VxMwU", "VMqU", "VxMqU", "VMdU",
    "VxMdU", "VMqU", "VxMqU", "VW_wrxb", "VxHxWx_wrxb", "GvEv", "VW_wrxb", "VxWx_wrxbl",
    "VWIb_wrxb", "VxWxIb_wrxb", "VWIb_wrxb", "VxWxIb_wrxb", "VW_wrxb", "VxHxWx_wrxb", "VWIb_wrxb",
    "VxWxIb_wrxb", "VWIb_wrxb", "VxWxIb_wrxb", "GvMv", "MvGv", "GyEb", "GyEv", "VMd", "VqqMq",
    "WdqVqqIb", "VqqHqqWdqIb", "VHM", "MHV", "VHM", "MHV", "VxHxWx_rxbl", "VWIb_rxbl",
    "VxHxWx_rxbl", "VxWxIb_rxbl", "VqqHqqWqqIb", "VxWx", "VxWx", "none", "none", "VxHxWxLx",
    "VxHxWxLx", "VHU", "VMq", "UHV", "MqV", "VHU", "VMd_rxb", "UHV", "MdV", "VHWL", "VHW", "HVW",
    "VHW", "HVW", "VHW", "HVW">>

(* Instruction n is element n + 1.                                         *)
ud_itab ==
  ud_itab_0_149 \o ud_itab_150_299 \o ud_itab_300_449 \o ud_itab_450_599 \o ud_itab_600_749 \o
  ud_itab_750_899 \o ud_itab_900_1049 \o ud_itab_1050_1199 \o ud_itab_1200_1349 \o
  ud_itab_1350_1499 \o ud_itab_1500_1649 \o ud_itab_1650_1745

(* A format: the class of its prefix flags, then its operands.             *)
Format ==
  [none |-> <<"none">>, Ib |-> <<"none","Ib">>, EbGb |-> <<"rxb","Eb","Gb">>,
   EvGv |-> <<"wrxb","Ev","Gv">>, GbEb |-> <<"rxb","Gb","Eb">>, GvEv |-> <<"wrxb","Gv","Ev">>,
   ALIb |-> <<"none","AL","Ib">>, rAXsIz |-> <<"w","rAX","sIz">>,
   EbIb_rxb |-> <<"rxb","Eb","Ib">>, EbIb_rxb_inv64 |-> <<"rxb_inv64","Eb","Ib">>,
   EvsIz |-> <<"wrxb","Ev","sIz">>, EvsIb |-> <<"wrxb","Ev","sIb">>, VW |-> <<"rxb","V","W">>,
   VxHxWx_rxbl |-> <<"rxbl","Vx","Hx","Wx">>, VxHxWx |-> <<"rxb","Vx","Hx","Wx">>,
   VxWx_rxb |-> <<"rxb","Vx","Wx">>, VWIb |-> <<"rxb","V","W","Ib">>,
   VxWxIb |-> <<"rxb","Vx","Wx","Ib">>, EbIb |-> <<"wrxb","Eb","Ib">>,
   EwGw |-> <<"none","Ew","Gw">>, GqEd |-> <<"wrxb","Gq","Ed">>, Ev |-> <<"wrxb","Ev">>,
   Eq |-> <<"wrxb_def64","Eq">>, Fv |-> <<"wrxb","Fv">>, Jz |-> <<"def64","Jz">>,
   Av |-> <<"none","Av">>, none_w |-> <<"w">>, M_wrxb |-> <<"wrxb","M">>,
   VxHxWxIb_rxbl |-> <<"rxbl","Vx","Hx","Wx","Ib">>, VxHxWxIb |-> <<"rxb","Vx","Hx","Wx","Ib">>,
   M |-> <<"rxb","M">>, VsdWsd |-> <<"rxb","Vsd","Wsd">>, VWdq |-> <<"rxb","V","Wdq">>,
   VxWdq |-> <<"rxbl","Vx","Wdq">>, VdqW |-> <<"rxb","Vdq","W">>, VdqWx |-> <<"rxbl","Vdq","Wx">>,
   PW |-> <<"rxb","P","W">>, VQ |-> <<"rxb","V","Q">>, VxWx |-> <<"rxbl","Vx","Wx">>,
   PMqU |-> <<"rxb","P","MqU">>, GyMqU |-> <<"wrxb","Gy","MqU">>, VEy |-> <<"wrxb","V","Ey">>,
   VxHxEy |-> <<"wrxb","Vx","Hx","Ey">>, GyMdU |-> <<"wrxb","Gy","MdU">>,
   none_inv64 |-> <<"inv64">>, R0z |-> <<"none","R0z">>, R1z |-> <<"none","R1z">>,
   R2z |-> <<"none","R2z">>, R3z |-> <<"none","R3z">>, R4z |-> <<"none","R4z">>,
   R5z |-> <<"none","R5z">>, R6z |-> <<"none","R6z">>, R7z |-> <<"none","R7z">>,
   Eb_wrxb |-> <<"wrxb","Eb">>, VMqU_rxb |-> <<"rxb","V","MqU">>,
   VxHxMqU |-> <<"rxb","Vx","Hx","MqU">>, VMdU_rxb |-> <<"rxb","V","MdU">>,
   VxHxMdU |-> <<"rxb","Vx","Hx","MdU">>, IwIb |-> <<"def64","Iw","Ib">>,
   MdRyVIb |-> <<"wrxb","MdRy","V","Ib">>, MdRyVxIb |-> <<"wrxb","MdRy","Vx","Ib">>,
   Mq |-> <<"rxb","Mq">>, Md |-> <<"rxb","Md">>, ST0ST0 |-> <<"none","ST0","ST0">>,
   ST1ST0 |-> <<"none","ST1","ST0">>, ST2ST0 |-> <<"none","ST2","ST0">>,
   ST3ST0 |-> <<"none","ST3","ST0">>, ST4ST0 |-> <<"none","ST4","ST0">>,
   ST5ST0 |-> <<"none","ST5","ST0">>, ST6ST0 |-> <<"none","ST6","ST0">>,
   ST7ST0 |-> <<"none","ST7","ST0">>, ST0ST1 |-> <<"none","ST0","ST1">>,
   ST0ST2 |-> <<"none","ST0","ST2">>, ST0ST3 |-> <<"none","ST0","ST3">>,
   ST0ST4 |-> <<"none","ST0","ST4">>, ST0ST5 |-> <<"none","ST0","ST5">>,
   ST0ST6 |-> <<"none","ST0","ST6">>, ST0ST7 |-> <<"none","ST0","ST7">>, Mt |-> <<"rxb","Mt">>,
   ST0 |-> <<"none","ST0">>, ST1 |-> <<"none","ST1">>, ST2 |-> <<"none","ST2">>,
   ST3 |-> <<"none","ST3">>, ST4 |-> <<"none","ST4">>, ST5 |-> <<"none","ST5">>,
   ST6 |-> <<"none","ST6">>, ST7 |-> <<"none","ST7">>, Mw |-> <<"rxb","Mw">>,
   AX |-> <<"none","AX">>, eAXIb |-> <<"none","eAX","Ib">>, ALDX |-> <<"none","AL","DX">>,
   eAXDX |-> <<"none","eAX","DX">>, GvEvIz |-> <<"wrxb","Gv","Ev","Iz">>,
   GvEvsIb |-> <<"wrxb","Gv","Ev","sIb">>, none_str |-> <<"str">>, GdMo |-> <<"none","Gd","Mo">>,
   GqMo |-> <<"none","Gq","Mo">>, Jb |-> <<"none","Jb">>, Ev_wrxb_def64 |-> <<"wrxb_def64","Ev">>,
   Jb_def64 |-> <<"def64","Jb">>, GvEw |-> <<"wrxb","Gv","Ew">>, Md_wrxb |-> <<"wrxb","Md">>,
   GvM |-> <<"none","Gv","M">>, GvM_wrxb |-> <<"wrxb","Gv","M">>, GzM |-> <<"wrxb","Gz","M">>,
   Ew |-> <<"rxb","Ew">>, none_w_str |-> <<"w_str">>, PN |-> <<"rxb","P","N">>,
   MwRvS |-> <<"wrxb","MwRv","S">>, SMwRv |-> <<"wrxb","S","MwRv">>,
   ALOb |-> <<"none","AL","Ob">>, rAXOv |-> <<"w","rAX","Ov">>, ObAL |-> <<"none","Ob","AL">>,
   OvrAX |-> <<"w","Ov","rAX">>, R0bIb |-> <<"b","R0b","Ib">>, R1bIb |-> <<"b","R1b","Ib">>,
   R2bIb |-> <<"b","R2b","Ib">>, R3bIb |-> <<"b","R3b","Ib">>, R4bIb |-> <<"b","R4b","Ib">>,
   R5bIb |-> <<"b","R5b","Ib">>, R6bIb |-> <<"b","R6b","Ib">>, R7bIb |-> <<"b","R7b","Ib">>,
   R0vIv |-> <<"wb","R0v","Iv">>, R1vIv |-> <<"wb","R1v","Iv">>, R2vIv |-> <<"wb","R2v","Iv">>,
   R3vIv |-> <<"wb","R3v","Iv">>, R4vIv |-> <<"wb","R4v","Iv">>, R5vIv |-> <<"wb","R5v","Iv">>,
   R6vIv |-> <<"wb","R6v","Iv">>, R7vIv |-> <<"wb","R7v","Iv">>, RC |-> <<"wrb","R","C">>,
   RD |-> <<"wrb","R","D">>, CR |-> <<"wrb","C","R">>, DR |-> <<"wrb","D","R">>,
   WV |-> <<"rxb","W","V">>, WxVx |-> <<"rxbl","Wx","Vx">>, PEy |-> <<"wrxb","P","Ey">>,
   VxEy |-> <<"wrxb","Vx","Ey">>, EyP |-> <<"wrxb","Ey","P">>, EyV |-> <<"wrxb","Ey","V">>,
   EyVx |-> <<"wrxb","Ey","Vx">>, VM |-> <<"rxb","V","M">>, VxHxM |-> <<"rxb","Vx","Hx","M">>,
   MV |-> <<"rxb","M","V">>, MVx_rxb |-> <<"rxb","M","Vx">>, VU |-> <<"rxb","V","U">>,
   VxHxUx |-> <<"rxb","Vx","Hx","Ux">>, VxUx |-> <<"rxb","Vx","Ux">>, GdU |-> <<"rb","Gd","U">>,
   GdUx |-> <<"rbl","Gd","Ux">>, GdUx_rb |-> <<"rb","Gd","Ux">>, MVx |-> <<"rxbl","M","Vx">>,
   MGy |-> <<"wrxb","M","Gy">>, MP |-> <<"rxb","M","P">>, PEq |-> <<"wrxb","P","Eq">>,
   VEq |-> <<"wrxb","V","Eq">>, VxEq |-> <<"wrxb","Vx","Eq">>, EqP |-> <<"wrxb","Eq","P">>,
   EqV |-> <<"wrxb","Eq","V">>, EqVx |-> <<"wrxb","Eq","Vx">>, VW_wrxb |-> <<"wrxb","V","W">>,
   VxWx_wrxb |-> <<"wrxb","Vx","Wx">>, WV_wrxb |-> <<"wrxb","W","V">>,
   WxVx_wrxb |-> <<"wrxb","Wx","Vx">>, PQ_wrxb |-> <<"wrxb","P","Q">>, QP |-> <<"wrxb","Q","P">>,
   GvEb |-> <<"wrxb","Gv","Eb">>, GyEw |-> <<"wrxb","Gy","Ew">>, IbAL |-> <<"none","Ib","AL">>,
   IbeAX |-> <<"none","Ib","eAX">>, DXAL |-> <<"none","DX","AL">>,
   DXeAX |-> <<"none","DX","eAX">>, PQ |-> <<"rxb","P","Q">>,
   MbRvVIb |-> <<"rxb_def64","MbRv","V","Ib">>, MbRvVxIb |-> <<"rxb_def64","MbRv","Vx","Ib">>,
   EdVIb |-> <<"wrxb","Ed","V","Ib">>, EdVxIb |-> <<"wrxb","Ed","Vx","Ib">>,
   EqVIb |-> <<"wrb_def64","Eq","V","Ib">>, EqVxIb |-> <<"wrb_def64","Eq","Vx","Ib">>,
   GyUIb |-> <<"wrb","Gy","U","Ib">>, GyUxIb |-> <<"wrb","Gy","Ux","Ib">>,
   GyNIb |-> <<"wrxb","Gy","N","Ib">>, MwRvVIb |-> <<"rxb","MwRv","V","Ib">>,
   MwRvVxIb |-> <<"rxb","MwRv","Vx","Ib">>, VMbRdIb |-> <<"wrxb","V","MbRd","Ib">>,
   PMwRyIb |-> <<"wrxb_def64","P","MwRy","Ib">>, VMwRyIb |-> <<"wrxb_def64","V","MwRy","Ib">>,
   VxMwRyIb |-> <<"wrxb_def64","Vx","MwRy","Ib">>, VEdIb |-> <<"wrxb","V","Ed","Ib">>,
   VEqIb |-> <<"wrxb","V","Eq","Ib">>, VHMbRdIb |-> <<"wrxb","V","H","MbRd","Ib">>,
   VHEdIb |-> <<"wrxb","V","H","Ed","Ib">>, VHEqIb |-> <<"wrxb","V","H","Eq","Ib">>,
   GdU_wrb |-> <<"wrb","Gd","U">>, GdUx_wrb |-> <<"wrb","Gd","Ux">>, GdN |-> <<"wrb","Gd","N">>,
   ES |-> <<"inv64","ES">>, SS |-> <<"inv64","SS">>, DS |-> <<"inv64","DS">>,
   GS |-> <<"none","GS">>, FS |-> <<"none","FS">>, R0v |-> <<"b_def64","R0v">>,
   R1v |-> <<"b_def64","R1v">>, R2v |-> <<"b_def64","R2v">>, R3v |-> <<"b_def64","R3v">>,
   R4v |-> <<"b_def64","R4v">>, R5v |-> <<"b_def64","R5v">>, R6v |-> <<"b_def64","R6v">>,
   R7v |-> <<"b_def64","R7v">>, none_def64 |-> <<"def64">>, PQIb |-> <<"rxb","P","Q","Ib">>,
   UIb |-> <<"b","U","Ib">>, NIb |-> <<"none","N","Ib">>, HxUxIb |-> <<"b","Hx","Ux","Ib">>,
   CS |-> <<"inv64","CS">>, sIz |-> <<"def64","sIz">>, sIb |-> <<"def64","sIb">>,
   none_w_def64 |-> <<"w_def64">>, EvIb |-> <<"wrxb","Ev","Ib">>, EbI1 |-> <<"wrxb","Eb","I1">>,
   EbCL |-> <<"wrxb","Eb","CL">>, EvCL |-> <<"wrxb","Ev","CL">>, EvI1 |-> <<"wrxb","Ev","I1">>,
   Iw |-> <<"none","Iw">>, EbCL_rxb |-> <<"rxb","Eb","CL">>, Eb |-> <<"rxb","Eb">>,
   EvGvIb |-> <<"wrxb","Ev","Gv","Ib">>, EvGvCL |-> <<"wrxb","Ev","Gv","CL">>,
   MwRv |-> <<"wrxb","MwRv">>, EvIz |-> <<"wrxb","Ev","Iz">>, EyGy |-> <<"rxb_def64","Ey","Gy">>,
   GyEy |-> <<"rxb_def64","Gy","Ey">>, R0vrAX |-> <<"wb","R0v","rAX">>,
   R1vrAX |-> <<"wb","R1v","rAX">>, R2vrAX |-> <<"wb","R2v","rAX">>,
   R3vrAX |-> <<"wb","R3v","rAX">>, R4vrAX |-> <<"wb","R4v","rAX">>,
   R5vrAX |-> <<"wb","R5v","rAX">>, R6vrAX |-> <<"wb","R6v","rAX">>,
   R7vrAX |-> <<"wb","R7v","rAX">>, WV_rxbl |-> <<"rxbl","W","V">>,
   VW_rxbl |-> <<"rxbl","V","W">>, PU |-> <<"b","P","U">>, VN |-> <<"r","V","N">>,
   VMdIb |-> <<"wrxb","V","Md","Ib">>, VxHxMdIb |-> <<"wrxb","Vx","Hx","Md","Ib">>,
   VxM |-> <<"rxbl","Vx","M">>, VxWxIb_rxbl |-> <<"rxbl","Vx","Wx","Ib">>, R0y |-> <<"wb","R0y">>,
   R1y |-> <<"wb","R1y">>, R2y |-> <<"wb","R2y">>, R3y |-> <<"wb","R3y">>, R4y |-> <<"wb","R4y">>,
   R5y |-> <<"wb","R5y">>, R6y |-> <<"wb","R6y">>, R7y |-> <<"wb","R7y">>,
   VM_wrxb |-> <<"wrxb","V","M">>, VxM_wrxbl |-> <<"wrxbl","Vx","M">>,
   VxHxWx_wrxbl |-> <<"wrxbl","Vx","Hx","Wx">>, VMqU |-> <<"wrxb","V","MqU">>,
   VxMqU |-> <<"wrxb","Vx","MqU">>, VMdU |-> <<"wrxb","V","MdU">>,
   VxMdU |-> <<"wrxb","Vx","MdU">>, VMwU |-> <<"wrxb","V","MwU">>,
   VxMwU |-> <<"wrxb","Vx","MwU">>, VxHxWx_wrxb |-> <<"wrxb","Vx","Hx","Wx">>,
   VxWx_wrxbl |-> <<"wrxbl","Vx","Wx">>, VWIb_wrxb |-> <<"wrxb","V","W","Ib">>,
   VxWxIb_wrxb |-> <<"wrxb","Vx","Wx","Ib">>, GvMv |-> <<"wrxb","Gv","Mv">>,
   MvGv |-> <<"wrxb","Mv","Gv">>, GyEb |-> <<"wrxb","Gy","Eb">>, GyEv |-> <<"wrxb","Gy","Ev">>,
   VMd |-> <<"rxbl","V","Md">>, VqqMq |-> <<"rxbl","Vqq","Mq">>,
   WdqVqqIb |-> <<"rxbl","Wdq","Vqq","Ib">>, VqqHqqWdqIb |-> <<"rxbl","Vqq","Hqq","Wdq","Ib">>,
   VHM |-> <<"rxbl","V","H","M">>, MHV |-> <<"rxbl","M","H","V">>,
   VWIb_rxbl |-> <<"rxbl","V","W","Ib">>, VqqHqqWqqIb |-> <<"rxbl","Vqq","Hqq","Wqq","Ib">>,
   VxHxWxLx |-> <<"rxbl","Vx","Hx","Wx","Lx">>, VHU |-> <<"rxb","V","H","U">>,
   VMq |-> <<"rxb","V","Mq">>, UHV |-> <<"rxb","U","H","V">>, MqV |-> <<"rxb","Mq","V">>,
   VMd_rxb |-> <<"rxb","V","Md">>, MdV |-> <<"rxb","Md","V">>, VHWL |-> <<"rxb","V","H","W","L">>,
   VHW |-> <<"rxb","V","H","W">>, HVW |-> <<"rxb","H","V","W">>]

(* The prefix flags of a class that decode.c looks at.                     *)
Flags ==
  [none |-> {}, rxb |-> {"rexr", "rexx", "rexb"}, wrxb |-> {"rexw", "rexr", "rexx", "rexb"},
   w |-> {"rexw"}, rxb_inv64 |-> {"rexr", "rexx", "rexb", "inv64"},
   rxbl |-> {"rexr", "rexx", "rexb", "vexl"},
   wrxb_def64 |-> {"rexw", "rexr", "rexx", "rexb", "def64"}, def64 |-> {"def64"},
   inv64 |-> {"inv64"}, str |-> {"str"}, w_str |-> {"rexw", "str"}, b |-> {"rexb"},
   wb |-> {"rexw", "rexb"}, wrb |-> {"rexw", "rexr", "rexb"}, rb |-> {"rexr", "rexb"},
   rbl |-> {"rexr", "rexb", "vexl"}, rxb_def64 |-> {"rexr", "rexx", "rexb", "def64"},
   wrb_def64 |-> {"rexw", "rexr", "rexb", "def64"}, b_def64 |-> {"rexb", "def64"},
   w_def64 |-> {"rexw", "def64"}, r |-> {"rexr"},
   wrxbl |-> {"rexw", "rexr", "rexx", "rexb", "vexl"}]

(* What an operand is, and how wide.                                       *)
Operand ==
  [AL |-> <<"AL","B">>, AX |-> <<"AX","W">>, Av |-> <<"A","V">>, C |-> <<"C","NA">>,
   CL |-> <<"CL","B">>, CS |-> <<"CS","NA">>, CX |-> <<"CX","W">>, D |-> <<"D","NA">>,
   DL |-> <<"DL","B">>, DS |-> <<"DS","NA">>, DX |-> <<"DX","W">>, E |-> <<"E","NA">>,
   ES |-> <<"ES","NA">>, Eb |-> <<"E","B">>, Ed |-> <<"E","D">>, Eq |-> <<"E","Q">>,
   Ev |-> <<"E","V">>, Ew |-> <<"E","W">>, Ey |-> <<"E","Y">>, Ez |-> <<"E","Z">>,
   FS |-> <<"FS","NA">>, Fv |-> <<"F","V">>, G |-> <<"G","NA">>, GS |-> <<"GS","NA">>,
   Gb |-> <<"G","B">>, Gd |-> <<"G","D">>, Gq |-> <<"G","Q">>, Gv |-> <<"G","V">>,
   Gw |-> <<"G","W">>, Gy |-> <<"G","Y">>, Gz |-> <<"G","Z">>, H |-> <<"H","X">>,
   Hqq |-> <<"H","QQ">>, Hx |-> <<"H","X">>, I1 |-> <<"I1","NA">>, I3 |-> <<"I3","NA">>,
   Ib |-> <<"I","B">>, Iv |-> <<"I","V">>, Iw |-> <<"I","W">>, Iz |-> <<"I","Z">>,
   Jb |-> <<"J","B">>, Jv |-> <<"J","V">>, Jz |-> <<"J","Z">>, L |-> <<"L","O">>,
   Lx |-> <<"L","X">>, M |-> <<"M","NA">>, Mb |-> <<"M","B">>, MbRd |-> <<"MR","BD">>,
   MbRv |-> <<"MR","BV">>, Md |-> <<"M","D">>, MdRy |-> <<"MR","DY">>, MdU |-> <<"MU","DO">>,
   Mdq |-> <<"M","DQ">>, Mo |-> <<"M","O">>, Mq |-> <<"M","Q">>, MqU |-> <<"MU","QO">>,
   Ms |-> <<"M","W">>, Mt |-> <<"M","T">>, Mv |-> <<"M","V">>, Mw |-> <<"M","W">>,
   MwRd |-> <<"MR","WD">>, MwRv |-> <<"MR","WV">>, MwRy |-> <<"MR","WY">>, MwU |-> <<"MU","WO">>,
   N |-> <<"N","Q">>, Ob |-> <<"O","B">>, Ov |-> <<"O","V">>, Ow |-> <<"O","W">>,
   P |-> <<"P","Q">>, Q |-> <<"Q","Q">>, R |-> <<"R","RDQ">>, R0b |-> <<"R0","B">>,
   R0v |-> <<"R0","V">>, R0w |-> <<"R0","W">>, R0y |-> <<"R0","Y">>, R0z |-> <<"R0","Z">>,
   R1b |-> <<"R1","B">>, R1v |-> <<"R1","V">>, R1w |-> <<"R1","W">>, R1y |-> <<"R1","Y">>,
   R1z |-> <<"R1","Z">>, R2b |-> <<"R2","B">>, R2v |-> <<"R2","V">>, R2w |-> <<"R2","W">>,
   R2y |-> <<"R2","Y">>, R2z |-> <<"R2","Z">>, R3b |-> <<"R3","B">>, R3v |-> <<"R3","V">>,
   R3w |-> <<"R3","W">>, R3y |-> <<"R3","Y">>, R3z |-> <<"R3","Z">>, R4b |-> <<"R4","B">>,
   R4v |-> <<"R4","V">>, R4w |-> <<"R4","W">>, R4y |-> <<"R4","Y">>, R4z |-> <<"R4","Z">>,
   R5b |-> <<"R5","B">>, R5v |-> <<"R5","V">>, R5w |-> <<"R5","W">>, R5y |-> <<"R5","Y">>,
   R5z |-> <<"R5","Z">>, R6b |-> <<"R6","B">>, R6v |-> <<"R6","V">>, R6w |-> <<"R6","W">>,
   R6y |-> <<"R6","Y">>, R6z |-> <<"R6","Z">>, R7b |-> <<"R7","B">>, R7v |-> <<"R7","V">>,
   R7w |-> <<"R7","W">>, R7y |-> <<"R7","Y">>, R7z |-> <<"R7","Z">>, S |-> <<"S","W">>,
   SS |-> <<"SS","NA">>, ST0 |-> <<"ST0","NA">>, ST1 |-> <<"ST1","NA">>, ST2 |-> <<"ST2","NA">>,
   ST3 |-> <<"ST3","NA">>, ST4 |-> <<"ST4","NA">>, ST5 |-> <<"ST5","NA">>, ST6 |-> <<"ST6","NA">>,
   ST7 |-> <<"ST7","NA">>, U |-> <<"U","O">>, Ux |-> <<"U","X">>, V |-> <<"V","DQ">>,
   Vdq |-> <<"V","DQ">>, Vqq |-> <<"V","QQ">>, Vsd |-> <<"V","Q">>, Vx |-> <<"V","X">>,
   W |-> <<"W","DQ">>, Wdq |-> <<"W","DQ">>, Wqq |-> <<"W","QQ">>, Wsd |-> <<"W","Q">>,
   Wx |-> <<"W","X">>, eAX |-> <<"eAX","Z">>, eCX |-> <<"eCX","Z">>, eDX |-> <<"eDX","Z">>,
   rAX |-> <<"rAX","V">>, rCX |-> <<"rCX","V">>, rDX |-> <<"rDX","V">>, sIb |-> <<"sI","B">>,
   sIv |-> <<"sI","V">>, sIz |-> <<"sI","Z">>]

(* The instructions whose mnemonic matters.                                *)
Mnemonics ==
  [invalid |-> {0},
   call |-> 69 .. 73,
   jnz |-> {732, 733},
   mov |-> 822 .. 853,
   nop |-> 947 .. 953,
   ret |-> {1293, 1294},
   swapgs |-> {1417},
   xchg |-> 1466 .. 1475]

Mnemonic ==
  [n \in 0 .. 1745 |->
     IF \E m \in DOMAIN Mnemonics : n \in Mnemonics[m]
     THEN CHOOSE m \in DOMAIN Mnemonics : n \in Mnemonics[m] ELSE "other"]

=============================================================================
