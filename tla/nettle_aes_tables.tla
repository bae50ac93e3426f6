--------------------------- MODULE nettle_aes_tables ---------------------------
(***************************************************************************)
(* The constant data of nettle-aes.c as it stands there, so that every     *)
(* entry can be checked: a program that runs meets only some of them.      *)
(* Words are written as their upper and their lower half (TableWord).      *)
(***************************************************************************)
EXTENDS Naturals

\* _aes_encrypt_table: the substitution of bytes.
sbox == <<
  \h63, \h7c, \h77, \h7b, \hf2, \h6b, \h6f, \hc5, \h30, \h01, \h67, \h2b, \hfe, \hd7, \hab, \h76,
  \hca, \h82, \hc9, \h7d, \hfa, \h59, \h47, \hf0, \had, \hd4, \ha2, \haf, \h9c, \ha4, \h72, \hc0,
  \hb7, \hfd, \h93, \h26, \h36, \h3f, \hf7, \hcc, \h34, \ha5, \he5, \hf1, \h71, \hd8, \h31, \h15,
  \h04, \hc7, \h23, \hc3, \h18, \h96, \h05, \h9a, \h07, \h12, \h80, \he2, \heb, \h27, \hb2, \h75,
  \h09, \h83, \h2c, \h1a, \h1b, \h6e, \h5a, \ha0, \h52, \h3b, \hd6, \hb3, \h29, \he3, \h2f, \h84,
  \h53, \hd1, \h00, \hed, \h20, \hfc, \hb1, \h5b, \h6a, \hcb, \hbe, \h39, \h4a, \h4c, \h58, \hcf,
  \hd0, \hef, \haa, \hfb, \h43, \h4d, \h33, \h85, \h45, \hf9, \h02, \h7f, \h50, \h3c, \h9f, \ha8,
  \h51, \ha3, \h40, \h8f, \h92, \h9d, \h38, \hf5, \hbc, \hb6, \hda, \h21, \h10, \hff, \hf3, \hd2,
  \hcd, \h0c, \h13, \hec, \h5f, \h97, \h44, \h17, \hc4, \ha7, \h7e, \h3d, \h64, \h5d, \h19, \h73,
  \h60, \h81, \h4f, \hdc, \h22, \h2a, \h90, \h88, \h46, \hee, \hb8, \h14, \hde, \h5e, \h0b, \hdb,
  \he0, \h32, \h3a, \h0a, \h49, \h06, \h24, \h5c, \hc2, \hd3, \hac, \h62, \h91, \h95, \he4, \h79,
  \he7, \hc8, \h37, \h6d, \h8d, \hd5, \h4e, \ha9, \h6c, \h56, \hf4, \hea, \h65, \h7a, \hae, \h08,
  \hba, \h78, \h25, \h2e, \h1c, \ha6, \hb4, \hc6, \he8, \hdd, \h74, \h1f, \h4b, \hbd, \h8b, \h8a,
  \h70, \h3e, \hb5, \h66, \h48, \h03, \hf6, \h0e, \h61, \h35, \h57, \hb9, \h86, \hc1, \h1d, \h9e,
  \he1, \hf8, \h98, \h11, \h69, \hd9, \h8e, \h94, \h9b, \h1e, \h87, \he9, \hce, \h55, \h28, \hdf,
  \h8c, \ha1, \h89, \h0d, \hbf, \he6, \h42, \h68, \h41, \h99, \h2d, \h0f, \hb0, \h54, \hbb, \h16>>

\* _aes_encrypt_table: what a byte at position 0 contributes to a round.
dtable0 == <<
  \ha563,\h63c6, \h847c,\h7cf8, \h9977,\h77ee, \h8d7b,\h7bf6, \h0df2,\hf2ff, \hbd6b,\h6bd6, \hb16f,\h6fde, \h54c5,\hc591,
  \h5030,\h3060, \h0301,\h0102, \ha967,\h67ce, \h7d2b,\h2b56, \h19fe,\hfee7, \h62d7,\hd7b5, \he6ab,\hab4d, \h9a76,\h76ec,
  \h45ca,\hca8f, \h9d82,\h821f, \h40c9,\hc989, \h877d,\h7dfa, \h15fa,\hfaef, \heb59,\h59b2, \hc947,\h478e, \h0bf0,\hf0fb,
  \hecad,\had41, \h67d4,\hd4b3, \hfda2,\ha25f, \heaaf,\haf45, \hbf9c,\h9c23, \hf7a4,\ha453, \h9672,\h72e4, \h5bc0,\hc09b,
  \hc2b7,\hb775, \h1cfd,\hfde1, \hae93,\h933d, \h6a26,\h264c, \h5a36,\h366c, \h413f,\h3f7e, \h02f7,\hf7f5, \h4fcc,\hcc83,
  \h5c34,\h3468, \hf4a5,\ha551, \h34e5,\he5d1, \h08f1,\hf1f9, \h9371,\h71e2, \h73d8,\hd8ab, \h5331,\h3162, \h3f15,\h152a,
  \h0c04,\h0408, \h52c7,\hc795, \h6523,\h2346, \h5ec3,\hc39d, \h2818,\h1830, \ha196,\h9637, \h0f05,\h050a, \hb59a,\h9a2f,
  \h0907,\h070e, \h3612,\h1224, \h9b80,\h801b, \h3de2,\he2df, \h26eb,\hebcd, \h6927,\h274e, \hcdb2,\hb27f, \h9f75,\h75ea,
  \h1b09,\h0912, \h9e83,\h831d, \h742c,\h2c58, \h2e1a,\h1a34, \h2d1b,\h1b36, \hb26e,\h6edc, \hee5a,\h5ab4, \hfba0,\ha05b,
  \hf652,\h52a4, \h4d3b,\h3b76, \h61d6,\hd6b7, \hceb3,\hb37d, \h7b29,\h2952, \h3ee3,\he3dd, \h712f,\h2f5e, \h9784,\h8413,
  \hf553,\h53a6, \h68d1,\hd1b9, \h0000,\h0000, \h2ced,\hedc1, \h6020,\h2040, \h1ffc,\hfce3, \hc8b1,\hb179, \hed5b,\h5bb6,
  \hbe6a,\h6ad4, \h46cb,\hcb8d, \hd9be,\hbe67, \h4b39,\h3972, \hde4a,\h4a94, \hd44c,\h4c98, \he858,\h58b0, \h4acf,\hcf85,
  \h6bd0,\hd0bb, \h2aef,\hefc5, \he5aa,\haa4f, \h16fb,\hfbed, \hc543,\h4386, \hd74d,\h4d9a, \h5533,\h3366, \h9485,\h8511,
  \hcf45,\h458a, \h10f9,\hf9e9, \h0602,\h0204, \h817f,\h7ffe, \hf050,\h50a0, \h443c,\h3c78, \hba9f,\h9f25, \he3a8,\ha84b,
  \hf351,\h51a2, \hfea3,\ha35d, \hc040,\h4080, \h8a8f,\h8f05, \had92,\h923f, \hbc9d,\h9d21, \h4838,\h3870, \h04f5,\hf5f1,
  \hdfbc,\hbc63, \hc1b6,\hb677, \h75da,\hdaaf, \h6321,\h2142, \h3010,\h1020, \h1aff,\hffe5, \h0ef3,\hf3fd, \h6dd2,\hd2bf,
  \h4ccd,\hcd81, \h140c,\h0c18, \h3513,\h1326, \h2fec,\hecc3, \he15f,\h5fbe, \ha297,\h9735, \hcc44,\h4488, \h3917,\h172e,
  \h57c4,\hc493, \hf2a7,\ha755, \h827e,\h7efc, \h473d,\h3d7a, \hac64,\h64c8, \he75d,\h5dba, \h2b19,\h1932, \h9573,\h73e6,
  \ha060,\h60c0, \h9881,\h8119, \hd14f,\h4f9e, \h7fdc,\hdca3, \h6622,\h2244, \h7e2a,\h2a54, \hab90,\h903b, \h8388,\h880b,
  \hca46,\h468c, \h29ee,\heec7, \hd3b8,\hb86b, \h3c14,\h1428, \h79de,\hdea7, \he25e,\h5ebc, \h1d0b,\h0b16, \h76db,\hdbad,
  \h3be0,\he0db, \h5632,\h3264, \h4e3a,\h3a74, \h1e0a,\h0a14, \hdb49,\h4992, \h0a06,\h060c, \h6c24,\h2448, \he45c,\h5cb8,
  \h5dc2,\hc29f, \h6ed3,\hd3bd, \hefac,\hac43, \ha662,\h62c4, \ha891,\h9139, \ha495,\h9531, \h37e4,\he4d3, \h8b79,\h79f2,
  \h32e7,\he7d5, \h43c8,\hc88b, \h5937,\h376e, \hb76d,\h6dda, \h8c8d,\h8d01, \h64d5,\hd5b1, \hd24e,\h4e9c, \he0a9,\ha949,
  \hb46c,\h6cd8, \hfa56,\h56ac, \h07f4,\hf4f3, \h25ea,\heacf, \haf65,\h65ca, \h8e7a,\h7af4, \he9ae,\hae47, \h1808,\h0810,
  \hd5ba,\hba6f, \h8878,\h78f0, \h6f25,\h254a, \h722e,\h2e5c, \h241c,\h1c38, \hf1a6,\ha657, \hc7b4,\hb473, \h51c6,\hc697,
  \h23e8,\he8cb, \h7cdd,\hdda1, \h9c74,\h74e8, \h211f,\h1f3e, \hdd4b,\h4b96, \hdcbd,\hbd61, \h868b,\h8b0d, \h858a,\h8a0f,
  \h9070,\h70e0, \h423e,\h3e7c, \hc4b5,\hb571, \haa66,\h66cc, \hd848,\h4890, \h0503,\h0306, \h01f6,\hf6f7, \h120e,\h0e1c,
  \ha361,\h61c2, \h5f35,\h356a, \hf957,\h57ae, \hd0b9,\hb969, \h9186,\h8617, \h58c1,\hc199, \h271d,\h1d3a, \hb99e,\h9e27,
  \h38e1,\he1d9, \h13f8,\hf8eb, \hb398,\h982b, \h3311,\h1122, \hbb69,\h69d2, \h70d9,\hd9a9, \h898e,\h8e07, \ha794,\h9433,
  \hb69b,\h9b2d, \h221e,\h1e3c, \h9287,\h8715, \h20e9,\he9c9, \h49ce,\hce87, \hff55,\h55aa, \h7828,\h2850, \h7adf,\hdfa5,
  \h8f8c,\h8c03, \hf8a1,\ha159, \h8089,\h8909, \h170d,\h0d1a, \hdabf,\hbf65, \h31e6,\he6d7, \hc642,\h4284, \hb868,\h68d0,
  \hc341,\h4182, \hb099,\h9929, \h772d,\h2d5a, \h110f,\h0f1e, \hcbb0,\hb07b, \hfc54,\h54a8, \hd6bb,\hbb6d, \h3a16,\h162c>>

\* _aes_encrypt_table: what a byte at position 1 contributes to a round.
dtable1 == <<
  \h6363,\hc6a5, \h7c7c,\hf884, \h7777,\hee99, \h7b7b,\hf68d, \hf2f2,\hff0d, \h6b6b,\hd6bd, \h6f6f,\hdeb1, \hc5c5,\h9154,
  \h3030,\h6050, \h0101,\h0203, \h6767,\hcea9, \h2b2b,\h567d, \hfefe,\he719, \hd7d7,\hb562, \habab,\h4de6, \h7676,\hec9a,
  \hcaca,\h8f45, \h8282,\h1f9d, \hc9c9,\h8940, \h7d7d,\hfa87, \hfafa,\hef15, \h5959,\hb2eb, \h4747,\h8ec9, \hf0f0,\hfb0b,
  \hadad,\h41ec, \hd4d4,\hb367, \ha2a2,\h5ffd, \hafaf,\h45ea, \h9c9c,\h23bf, \ha4a4,\h53f7, \h7272,\he496, \hc0c0,\h9b5b,
  \hb7b7,\h75c2, \hfdfd,\he11c, \h9393,\h3dae, \h2626,\h4c6a, \h3636,\h6c5a, \h3f3f,\h7e41, \hf7f7,\hf502, \hcccc,\h834f,
  \h3434,\h685c, \ha5a5,\h51f4, \he5e5,\hd134, \hf1f1,\hf908, \h7171,\he293, \hd8d8,\hab73, \h3131,\h6253, \h1515,\h2a3f,
  \h0404,\h080c, \hc7c7,\h9552, \h2323,\h4665, \hc3c3,\h9d5e, \h1818,\h3028, \h9696,\h37a1, \h0505,\h0a0f, \h9a9a,\h2fb5,
  \h0707,\h0e09, \h1212,\h2436, \h8080,\h1b9b, \he2e2,\hdf3d, \hebeb,\hcd26, \h2727,\h4e69, \hb2b2,\h7fcd, \h7575,\hea9f,
  \h0909,\h121b, \h8383,\h1d9e, \h2c2c,\h5874, \h1a1a,\h342e, \h1b1b,\h362d, \h6e6e,\hdcb2, \h5a5a,\hb4ee, \ha0a0,\h5bfb,
  \h5252,\ha4f6, \h3b3b,\h764d, \hd6d6,\hb761, \hb3b3,\h7dce, \h2929,\h527b, \he3e3,\hdd3e, \h2f2f,\h5e71, \h8484,\h1397,
  \h5353,\ha6f5, \hd1d1,\hb968, \h0000,\h0000, \heded,\hc12c, \h2020,\h4060, \hfcfc,\he31f, \hb1b1,\h79c8, \h5b5b,\hb6ed,
  \h6a6a,\hd4be, \hcbcb,\h8d46, \hbebe,\h67d9, \h3939,\h724b, \h4a4a,\h94de, \h4c4c,\h98d4, \h5858,\hb0e8, \hcfcf,\h854a,
  \hd0d0,\hbb6b, \hefef,\hc52a, \haaaa,\h4fe5, \hfbfb,\hed16, \h4343,\h86c5, \h4d4d,\h9ad7, \h3333,\h6655, \h8585,\h1194,
  \h4545,\h8acf, \hf9f9,\he910, \h0202,\h0406, \h7f7f,\hfe81, \h5050,\ha0f0, \h3c3c,\h7844, \h9f9f,\h25ba, \ha8a8,\h4be3,
  \h5151,\ha2f3, \ha3a3,\h5dfe, \h4040,\h80c0, \h8f8f,\h058a, \h9292,\h3fad, \h9d9d,\h21bc, \h3838,\h7048, \hf5f5,\hf104,
  \hbcbc,\h63df, \hb6b6,\h77c1, \hdada,\haf75, \h2121,\h4263, \h1010,\h2030, \hffff,\he51a, \hf3f3,\hfd0e, \hd2d2,\hbf6d,
  \hcdcd,\h814c, \h0c0c,\h1814, \h1313,\h2635, \hecec,\hc32f, \h5f5f,\hbee1, \h9797,\h35a2, \h4444,\h88cc, \h1717,\h2e39,
  \hc4c4,\h9357, \ha7a7,\h55f2, \h7e7e,\hfc82, \h3d3d,\h7a47, \h6464,\hc8ac, \h5d5d,\hbae7, \h1919,\h322b, \h7373,\he695,
  \h6060,\hc0a0, \h8181,\h1998, \h4f4f,\h9ed1, \hdcdc,\ha37f, \h2222,\h4466, \h2a2a,\h547e, \h9090,\h3bab, \h8888,\h0b83,
  \h4646,\h8cca, \heeee,\hc729, \hb8b8,\h6bd3, \h1414,\h283c, \hdede,\ha779, \h5e5e,\hbce2, \h0b0b,\h161d, \hdbdb,\had76,
  \he0e0,\hdb3b, \h3232,\h6456, \h3a3a,\h744e, \h0a0a,\h141e, \h4949,\h92db, \h0606,\h0c0a, \h2424,\h486c, \h5c5c,\hb8e4,
  \hc2c2,\h9f5d, \hd3d3,\hbd6e, \hacac,\h43ef, \h6262,\hc4a6, \h9191,\h39a8, \h9595,\h31a4, \he4e4,\hd337, \h7979,\hf28b,
  \he7e7,\hd532, \hc8c8,\h8b43, \h3737,\h6e59, \h6d6d,\hdab7, \h8d8d,\h018c, \hd5d5,\hb164, \h4e4e,\h9cd2, \ha9a9,\h49e0,
  \h6c6c,\hd8b4, \h5656,\hacfa, \hf4f4,\hf307, \heaea,\hcf25, \h6565,\hcaaf, \h7a7a,\hf48e, \haeae,\h47e9, \h0808,\h1018,
  \hbaba,\h6fd5, \h7878,\hf088, \h2525,\h4a6f, \h2e2e,\h5c72, \h1c1c,\h3824, \ha6a6,\h57f1, \hb4b4,\h73c7, \hc6c6,\h9751,
  \he8e8,\hcb23, \hdddd,\ha17c, \h7474,\he89c, \h1f1f,\h3e21, \h4b4b,\h96dd, \hbdbd,\h61dc, \h8b8b,\h0d86, \h8a8a,\h0f85,
  \h7070,\he090, \h3e3e,\h7c42, \hb5b5,\h71c4, \h6666,\hccaa, \h4848,\h90d8, \h0303,\h0605, \hf6f6,\hf701, \h0e0e,\h1c12,
  \h6161,\hc2a3, \h3535,\h6a5f, \h5757,\haef9, \hb9b9,\h69d0, \h8686,\h1791, \hc1c1,\h9958, \h1d1d,\h3a27, \h9e9e,\h27b9,
  \he1e1,\hd938, \hf8f8,\heb13, \h9898,\h2bb3, \h1111,\h2233, \h6969,\hd2bb, \hd9d9,\ha970, \h8e8e,\h0789, \h9494,\h33a7,
  \h9b9b,\h2db6, \h1e1e,\h3c22, \h8787,\h1592, \he9e9,\hc920, \hcece,\h8749, \h5555,\haaff, \h2828,\h5078, \hdfdf,\ha57a,
  \h8c8c,\h038f, \ha1a1,\h59f8, \h8989,\h0980, \h0d0d,\h1a17, \hbfbf,\h65da, \he6e6,\hd731, \h4242,\h84c6, \h6868,\hd0b8,
  \h4141,\h82c3, \h9999,\h29b0, \h2d2d,\h5a77, \h0f0f,\h1e11, \hb0b0,\h7bcb, \h5454,\ha8fc, \hbbbb,\h6dd6, \h1616,\h2c3a>>

\* _aes_encrypt_table: what a byte at position 2 contributes to a round.
dtable2 == <<
  \h63c6,\ha563, \h7cf8,\h847c, \h77ee,\h9977, \h7bf6,\h8d7b, \hf2ff,\h0df2, \h6bd6,\hbd6b, \h6fde,\hb16f, \hc591,\h54c5,
  \h3060,\h5030, \h0102,\h0301, \h67ce,\ha967, \h2b56,\h7d2b, \hfee7,\h19fe, \hd7b5,\h62d7, \hab4d,\he6ab, \h76ec,\h9a76,
  \hca8f,\h45ca, \h821f,\h9d82, \hc989,\h40c9, \h7dfa,\h877d, \hfaef,\h15fa, \h59b2,\heb59, \h478e,\hc947, \hf0fb,\h0bf0,
  \had41,\hecad, \hd4b3,\h67d4, \ha25f,\hfda2, \haf45,\heaaf, \h9c23,\hbf9c, \ha453,\hf7a4, \h72e4,\h9672, \hc09b,\h5bc0,
  \hb775,\hc2b7, \hfde1,\h1cfd, \h933d,\hae93, \h264c,\h6a26, \h366c,\h5a36, \h3f7e,\h413f, \hf7f5,\h02f7, \hcc83,\h4fcc,
  \h3468,\h5c34, \ha551,\hf4a5, \he5d1,\h34e5, \hf1f9,\h08f1, \h71e2,\h9371, \hd8ab,\h73d8, \h3162,\h5331, \h152a,\h3f15,
  \h0408,\h0c04, \hc795,\h52c7, \h2346,\h6523, \hc39d,\h5ec3, \h1830,\h2818, \h9637,\ha196, \h050a,\h0f05, \h9a2f,\hb59a,
  \h070e,\h0907, \h1224,\h3612, \h801b,\h9b80, \he2df,\h3de2, \hebcd,\h26eb, \h274e,\h6927, \hb27f,\hcdb2, \h75ea,\h9f75,
  \h0912,\h1b09, \h831d,\h9e83, \h2c58,\h742c, \h1a34,\h2e1a, \h1b36,\h2d1b, \h6edc,\hb26e, \h5ab4,\hee5a, \ha05b,\hfba0,
  \h52a4,\hf652, \h3b76,\h4d3b, \hd6b7,\h61d6, \hb37d,\hceb3, \h2952,\h7b29, \he3dd,\h3ee3, \h2f5e,\h712f, \h8413,\h9784,
  \h53a6,\hf553, \hd1b9,\h68d1, \h0000,\h0000, \hedc1,\h2ced, \h2040,\h6020, \hfce3,\h1ffc, \hb179,\hc8b1, \h5bb6,\hed5b,
  \h6ad4,\hbe6a, \hcb8d,\h46cb, \hbe67,\hd9be, \h3972,\h4b39, \h4a94,\hde4a, \h4c98,\hd44c, \h58b0,\he858, \hcf85,\h4acf,
  \hd0bb,\h6bd0, \hefc5,\h2aef, \haa4f,\he5aa, \hfbed,\h16fb, \h4386,\hc543, \h4d9a,\hd74d, \h3366,\h5533, \h8511,\h9485,
  \h458a,\hcf45, \hf9e9,\h10f9, \h0204,\h0602, \h7ffe,\h817f, \h50a0,\hf050, \h3c78,\h443c, \h9f25,\hba9f, \ha84b,\he3a8,
  \h51a2,\hf351, \ha35d,\hfea3, \h4080,\hc040, \h8f05,\h8a8f, \h923f,\had92, \h9d21,\hbc9d, \h3870,\h4838, \hf5f1,\h04f5,
  \hbc63,\hdfbc, \hb677,\hc1b6, \hdaaf,\h75da, \h2142,\h6321, \h1020,\h3010, \hffe5,\h1aff, \hf3fd,\h0ef3, \hd2bf,\h6dd2,
  \hcd81,\h4ccd, \h0c18,\h140c, \h1326,\h3513, \hecc3,\h2fec, \h5fbe,\he15f, \h9735,\ha297, \h4488,\hcc44, \h172e,\h3917,
  \hc493,\h57c4, \ha755,\hf2a7, \h7efc,\h827e, \h3d7a,\h473d, \h64c8,\hac64, \h5dba,\he75d, \h1932,\h2b19, \h73e6,\h9573,
  \h60c0,\ha060, \h8119,\h9881, \h4f9e,\hd14f, \hdca3,\h7fdc, \h2244,\h6622, \h2a54,\h7e2a, \h903b,\hab90, \h880b,\h8388,
  \h468c,\hca46, \heec7,\h29ee, \hb86b,\hd3b8, \h1428,\h3c14, \hdea7,\h79de, \h5ebc,\he25e, \h0b16,\h1d0b, \hdbad,\h76db,
  \he0db,\h3be0, \h3264,\h5632, \h3a74,\h4e3a, \h0a14,\h1e0a, \h4992,\hdb49, \h060c,\h0a06, \h2448,\h6c24, \h5cb8,\he45c,
  \hc29f,\h5dc2, \hd3bd,\h6ed3, \hac43,\hefac, \h62c4,\ha662, \h9139,\ha891, \h9531,\ha495, \he4d3,\h37e4, \h79f2,\h8b79,
  \he7d5,\h32e7, \hc88b,\h43c8, \h376e,\h5937, \h6dda,\hb76d, \h8d01,\h8c8d, \hd5b1,\h64d5, \h4e9c,\hd24e, \ha949,\he0a9,
  \h6cd8,\hb46c, \h56ac,\hfa56, \hf4f3,\h07f4, \heacf,\h25ea, \h65ca,\haf65, \h7af4,\h8e7a, \hae47,\he9ae, \h0810,\h1808,
  \hba6f,\hd5ba, \h78f0,\h8878, \h254a,\h6f25, \h2e5c,\h722e, \h1c38,\h241c, \ha657,\hf1a6, \hb473,\hc7b4, \hc697,\h51c6,
  \he8cb,\h23e8, \hdda1,\h7cdd, \h74e8,\h9c74, \h1f3e,\h211f, \h4b96,\hdd4b, \hbd61,\hdcbd, \h8b0d,\h868b, \h8a0f,\h858a,
  \h70e0,\h9070, \h3e7c,\h423e, \hb571,\hc4b5, \h66cc,\haa66, \h4890,\hd848, \h0306,\h0503, \hf6f7,\h01f6, \h0e1c,\h120e,
  \h61c2,\ha361, \h356a,\h5f35, \h57ae,\hf957, \hb969,\hd0b9, \h8617,\h9186, \hc199,\h58c1, \h1d3a,\h271d, \h9e27,\hb99e,
  \he1d9,\h38e1, \hf8eb,\h13f8, \h982b,\hb398, \h1122,\h3311, \h69d2,\hbb69, \hd9a9,\h70d9, \h8e07,\h898e, \h9433,\ha794,
  \h9b2d,\hb69b, \h1e3c,\h221e, \h8715,\h9287, \he9c9,\h20e9, \hce87,\h49ce, \h55aa,\hff55, \h2850,\h7828, \hdfa5,\h7adf,
  \h8c03,\h8f8c, \ha159,\hf8a1, \h8909,\h8089, \h0d1a,\h170d, \hbf65,\hdabf, \he6d7,\h31e6, \h4284,\hc642, \h68d0,\hb868,
  \h4182,\hc341, \h9929,\hb099, \h2d5a,\h772d, \h0f1e,\h110f, \hb07b,\hcbb0, \h54a8,\hfc54, \hbb6d,\hd6bb, \h162c,\h3a16>>

\* _aes_encrypt_table: what a byte at position 3 contributes to a round.
dtable3 == <<
  \hc6a5,\h6363, \hf884,\h7c7c, \hee99,\h7777, \hf68d,\h7b7b, \hff0d,\hf2f2, \hd6bd,\h6b6b, \hdeb1,\h6f6f, \h9154,\hc5c5,
  \h6050,\h3030, \h0203,\h0101, \hcea9,\h6767, \h567d,\h2b2b, \he719,\hfefe, \hb562,\hd7d7, \h4de6,\habab, \hec9a,\h7676,
  \h8f45,\hcaca, \h1f9d,\h8282, \h8940,\hc9c9, \hfa87,\h7d7d, \hef15,\hfafa, \hb2eb,\h5959, \h8ec9,\h4747, \hfb0b,\hf0f0,
  \h41ec,\hadad, \hb367,\hd4d4, \h5ffd,\ha2a2, \h45ea,\hafaf, \h23bf,\h9c9c, \h53f7,\ha4a4, \he496,\h7272, \h9b5b,\hc0c0,
  \h75c2,\hb7b7, \he11c,\hfdfd, \h3dae,\h9393, \h4c6a,\h2626, \h6c5a,\h3636, \h7e41,\h3f3f, \hf502,\hf7f7, \h834f,\hcccc,
  \h685c,\h3434, \h51f4,\ha5a5, \hd134,\he5e5, \hf908,\hf1f1, \he293,\h7171, \hab73,\hd8d8, \h6253,\h3131, \h2a3f,\h1515,
  \h080c,\h0404, \h9552,\hc7c7, \h4665,\h2323, \h9d5e,\hc3c3, \h3028,\h1818, \h37a1,\h9696, \h0a0f,\h0505, \h2fb5,\h9a9a,
  \h0e09,\h0707, \h2436,\h1212, \h1b9b,\h8080, \hdf3d,\he2e2, \hcd26,\hebeb, \h4e69,\h2727, \h7fcd,\hb2b2, \hea9f,\h7575,
  \h121b,\h0909, \h1d9e,\h8383, \h5874,\h2c2c, \h342e,\h1a1a, \h362d,\h1b1b, \hdcb2,\h6e6e, \hb4ee,\h5a5a, \h5bfb,\ha0a0,
  \ha4f6,\h5252, \h764d,\h3b3b, \hb761,\hd6d6, \h7dce,\hb3b3, \h527b,\h2929, \hdd3e,\he3e3, \h5e71,\h2f2f, \h1397,\h8484,
  \ha6f5,\h5353, \hb968,\hd1d1, \h0000,\h0000, \hc12c,\heded, \h4060,\h2020, \he31f,\hfcfc, \h79c8,\hb1b1, \hb6ed,\h5b5b,
  \hd4be,\h6a6a, \h8d46,\hcbcb, \h67d9,\hbebe, \h724b,\h3939, \h94de,\h4a4a, \h98d4,\h4c4c, \hb0e8,\h5858, \h854a,\hcfcf,
  \hbb6b,\hd0d0, \hc52a,\hefef, \h4fe5,\haaaa, \hed16,\hfbfb, \h86c5,\h4343, \h9ad7,\h4d4d, \h6655,\h3333, \h1194,\h8585,
  \h8acf,\h4545, \he910,\hf9f9, \h0406,\h0202, \hfe81,\h7f7f, \ha0f0,\h5050, \h7844,\h3c3c, \h25ba,\h9f9f, \h4be3,\ha8a8,
  \ha2f3,\h5151, \h5dfe,\ha3a3, \h80c0,\h4040, \h058a,\h8f8f, \h3fad,\h9292, \h21bc,\h9d9d, \h7048,\h3838, \hf104,\hf5f5,
  \h63df,\hbcbc, \h77c1,\hb6b6, \haf75,\hdada, \h4263,\h2121, \h2030,\h1010, \he51a,\hffff, \hfd0e,\hf3f3, \hbf6d,\hd2d2,
  \h814c,\hcdcd, \h1814,\h0c0c, \h2635,\h1313, \hc32f,\hecec, \hbee1,\h5f5f, \h35a2,\h9797, \h88cc,\h4444, \h2e39,\h1717,
  \h9357,\hc4c4, \h55f2,\ha7a7, \hfc82,\h7e7e, \h7a47,\h3d3d, \hc8ac,\h6464, \hbae7,\h5d5d, \h322b,\h1919, \he695,\h7373,
  \hc0a0,\h6060, \h1998,\h8181, \h9ed1,\h4f4f, \ha37f,\hdcdc, \h4466,\h2222, \h547e,\h2a2a, \h3bab,\h9090, \h0b83,\h8888,
  \h8cca,\h4646, \hc729,\heeee, \h6bd3,\hb8b8, \h283c,\h1414, \ha779,\hdede, \hbce2,\h5e5e, \h161d,\h0b0b, \had76,\hdbdb,
  \hdb3b,\he0e0, \h6456,\h3232, \h744e,\h3a3a, \h141e,\h0a0a, \h92db,\h4949, \h0c0a,\h0606, \h486c,\h2424, \hb8e4,\h5c5c,
  \h9f5d,\hc2c2, \hbd6e,\hd3d3, \h43ef,\hacac, \hc4a6,\h6262, \h39a8,\h9191, \h31a4,\h9595, \hd337,\he4e4, \hf28b,\h7979,
  \hd532,\he7e7, \h8b43,\hc8c8, \h6e59,\h3737, \hdab7,\h6d6d, \h018c,\h8d8d, \hb164,\hd5d5, \h9cd2,\h4e4e, \h49e0,\ha9a9,
  \hd8b4,\h6c6c, \hacfa,\h5656, \hf307,\hf4f4, \hcf25,\heaea, \hcaaf,\h6565, \hf48e,\h7a7a, \h47e9,\haeae, \h1018,\h0808,
  \h6fd5,\hbaba, \hf088,\h7878, \h4a6f,\h2525, \h5c72,\h2e2e, \h3824,\h1c1c, \h57f1,\ha6a6, \h73c7,\hb4b4, \h9751,\hc6c6,
  \hcb23,\he8e8, \ha17c,\hdddd, \he89c,\h7474, \h3e21,\h1f1f, \h96dd,\h4b4b, \h61dc,\hbdbd, \h0d86,\h8b8b, \h0f85,\h8a8a,
  \he090,\h7070, \h7c42,\h3e3e, \h71c4,\hb5b5, \hccaa,\h6666, \h90d8,\h4848, \h0605,\h0303, \hf701,\hf6f6, \h1c12,\h0e0e,
  \hc2a3,\h6161, \h6a5f,\h3535, \haef9,\h5757, \h69d0,\hb9b9, \h1791,\h8686, \h9958,\hc1c1, \h3a27,\h1d1d, \h27b9,\h9e9e,
  \hd938,\he1e1, \heb13,\hf8f8, \h2bb3,\h9898, \h2233,\h1111, \hd2bb,\h6969, \ha970,\hd9d9, \h0789,\h8e8e, \h33a7,\h9494,
  \h2db6,\h9b9b, \h3c22,\h1e1e, \h1592,\h8787, \hc920,\he9e9, \h8749,\hcece, \haaff,\h5555, \h5078,\h2828, \ha57a,\hdfdf,
  \h038f,\h8c8c, \h59f8,\ha1a1, \h0980,\h8989, \h1a17,\h0d0d, \h65da,\hbfbf, \hd731,\he6e6, \h84c6,\h4242, \hd0b8,\h6868,
  \h82c3,\h4141, \h29b0,\h9999, \h5a77,\h2d2d, \h1e11,\h0f0f, \h7bcb,\hb0b0, \ha8fc,\h5454, \h6dd6,\hbbbb, \h2c3a,\h1616>>

\* _aes_decrypt_table: the inverse substitution.
isbox == <<
  \h52, \h09, \h6a, \hd5, \h30, \h36, \ha5, \h38, \hbf, \h40, \ha3, \h9e, \h81, \hf3, \hd7, \hfb,
  \h7c, \he3, \h39, \h82, \h9b, \h2f, \hff, \h87, \h34, \h8e, \h43, \h44, \hc4, \hde, \he9, \hcb,
  \h54, \h7b, \h94, \h32, \ha6, \hc2, \h23, \h3d, \hee, \h4c, \h95, \h0b, \h42, \hfa, \hc3, \h4e,
  \h08, \h2e, \ha1, \h66, \h28, \hd9, \h24, \hb2, \h76, \h5b, \ha2, \h49, \h6d, \h8b, \hd1, \h25,
  \h72, \hf8, \hf6, \h64, \h86, \h68, \h98, \h16, \hd4, \ha4, \h5c, \hcc, \h5d, \h65, \hb6, \h92,
  \h6c, \h70, \h48, \h50, \hfd, \hed, \hb9, \hda, \h5e, \h15, \h46, \h57, \ha7, \h8d, \h9d, \h84,
  \h90, \hd8, \hab, \h00, \h8c, \hbc, \hd3, \h0a, \hf7, \he4, \h58, \h05, \hb8, \hb3, \h45, \h06,
  \hd0, \h2c, \h1e, \h8f, \hca, \h3f, \h0f, \h02, \hc1, \haf, \hbd, \h03, \h01, \h13, \h8a, \h6b,
  \h3a, \h91, \h11, \h41, \h4f, \h67, \hdc, \hea, \h97, \hf2, \hcf, \hce, \hf0, \hb4, \he6, \h73,
  \h96, \hac, \h74, \h22, \he7, \had, \h35, \h85, \he2, \hf9, \h37, \he8, \h1c, \h75, \hdf, \h6e,
  \h47, \hf1, \h1a, \h71, \h1d, \h29, \hc5, \h89, \h6f, \hb7, \h62, \h0e, \haa, \h18, \hbe, \h1b,
  \hfc, \h56, \h3e, \h4b, \hc6, \hd2, \h79, \h20, \h9a, \hdb, \hc0, \hfe, \h78, \hcd, \h5a, \hf4,
  \h1f, \hdd, \ha8, \h33, \h88, \h07, \hc7, \h31, \hb1, \h12, \h10, \h59, \h27, \h80, \hec, \h5f,
  \h60, \h51, \h7f, \ha9, \h19, \hb5, \h4a, \h0d, \h2d, \he5, \h7a, \h9f, \h93, \hc9, \h9c, \hef,
  \ha0, \he0, \h3b, \h4d, \hae, \h2a, \hf5, \hb0, \hc8, \heb, \hbb, \h3c, \h83, \h53, \h99, \h61,
  \h17, \h2b, \h04, \h7e, \hba, \h77, \hd6, \h26, \he1, \h69, \h14, \h63, \h55, \h21, \h0c, \h7d>>

\* _aes_decrypt_table: what a byte at position 0 contributes to a round.
itable0 == <<
  \h50a7,\hf451, \h5365,\h417e, \hc3a4,\h171a, \h965e,\h273a, \hcb6b,\hab3b, \hf145,\h9d1f, \hab58,\hfaac, \h9303,\he34b,
  \h55fa,\h3020, \hf66d,\h76ad, \h9176,\hcc88, \h254c,\h02f5, \hfcd7,\he54f, \hd7cb,\h2ac5, \h8044,\h3526, \h8fa3,\h62b5,
  \h495a,\hb1de, \h671b,\hba25, \h980e,\hea45, \he1c0,\hfe5d, \h0275,\h2fc3, \h12f0,\h4c81, \ha397,\h468d, \hc6f9,\hd36b,
  \he75f,\h8f03, \h959c,\h9215, \heb7a,\h6dbf, \hda59,\h5295, \h2d83,\hbed4, \hd321,\h7458, \h2969,\he049, \h44c8,\hc98e,
  \h6a89,\hc275, \h7879,\h8ef4, \h6b3e,\h5899, \hdd71,\hb927, \hb64f,\he1be, \h17ad,\h88f0, \h66ac,\h20c9, \hb43a,\hce7d,
  \h184a,\hdf63, \h8231,\h1ae5, \h6033,\h5197, \h457f,\h5362, \he077,\h64b1, \h84ae,\h6bbb, \h1ca0,\h81fe, \h942b,\h08f9,
  \h5868,\h4870, \h19fd,\h458f, \h876c,\hde94, \hb7f8,\h7b52, \h23d3,\h73ab, \he202,\h4b72, \h578f,\h1fe3, \h2aab,\h5566,
  \h0728,\hebb2, \h03c2,\hb52f, \h9a7b,\hc586, \ha508,\h37d3, \hf287,\h2830, \hb2a5,\hbf23, \hba6a,\h0302, \h5c82,\h16ed,
  \h2b1c,\hcf8a, \h92b4,\h79a7, \hf0f2,\h07f3, \ha1e2,\h694e, \hcdf4,\hda65, \hd5be,\h0506, \h1f62,\h34d1, \h8afe,\ha6c4,
  \h9d53,\h2e34, \ha055,\hf3a2, \h32e1,\h8a05, \h75eb,\hf6a4, \h39ec,\h830b, \haaef,\h6040, \h069f,\h715e, \h5110,\h6ebd,
  \hf98a,\h213e, \h3d06,\hdd96, \hae05,\h3edd, \h46bd,\he64d, \hb58d,\h5491, \h055d,\hc471, \h6fd4,\h0604, \hff15,\h5060,
  \h24fb,\h9819, \h97e9,\hbdd6, \hcc43,\h4089, \h779e,\hd967, \hbd42,\he8b0, \h888b,\h8907, \h385b,\h19e7, \hdbee,\hc879,
  \h470a,\h7ca1, \he90f,\h427c, \hc91e,\h84f8, \h0000,\h0000, \h8386,\h8009, \h48ed,\h2b32, \hac70,\h111e, \h4e72,\h5a6c,
  \hfbff,\h0efd, \h5638,\h850f, \h1ed5,\hae3d, \h2739,\h2d36, \h64d9,\h0f0a, \h21a6,\h5c68, \hd154,\h5b9b, \h3a2e,\h3624,
  \hb167,\h0a0c, \h0fe7,\h5793, \hd296,\heeb4, \h9e91,\h9b1b, \h4fc5,\hc080, \ha220,\hdc61, \h694b,\h775a, \h161a,\h121c,
  \h0aba,\h93e2, \he52a,\ha0c0, \h43e0,\h223c, \h1d17,\h1b12, \h0b0d,\h090e, \hadc7,\h8bf2, \hb9a8,\hb62d, \hc8a9,\h1e14,
  \h8519,\hf157, \h4c07,\h75af, \hbbdd,\h99ee, \hfd60,\h7fa3, \h9f26,\h01f7, \hbcf5,\h725c, \hc53b,\h6644, \h347e,\hfb5b,
  \h7629,\h438b, \hdcc6,\h23cb, \h68fc,\hedb6, \h63f1,\he4b8, \hcadc,\h31d7, \h1085,\h6342, \h4022,\h9713, \h2011,\hc684,
  \h7d24,\h4a85, \hf83d,\hbbd2, \h1132,\hf9ae, \h6da1,\h29c7, \h4b2f,\h9e1d, \hf330,\hb2dc, \hec52,\h860d, \hd0e3,\hc177,
  \h6c16,\hb32b, \h99b9,\h70a9, \hfa48,\h9411, \h2264,\he947, \hc48c,\hfca8, \h1a3f,\hf0a0, \hd82c,\h7d56, \hef90,\h3322,
  \hc74e,\h4987, \hc1d1,\h38d9, \hfea2,\hca8c, \h360b,\hd498, \hcf81,\hf5a6, \h28de,\h7aa5, \h268e,\hb7da, \ha4bf,\had3f,
  \he49d,\h3a2c, \h0d92,\h7850, \h9bcc,\h5f6a, \h6246,\h7e54, \hc213,\h8df6, \he8b8,\hd890, \h5ef7,\h392e, \hf5af,\hc382,
  \hbe80,\h5d9f, \h7c93,\hd069, \ha92d,\hd56f, \hb312,\h25cf, \h3b99,\hacc8, \ha77d,\h1810, \h6e63,\h9ce8, \h7bbb,\h3bdb,
  \h0978,\h26cd, \hf418,\h596e, \h01b7,\h9aec, \ha89a,\h4f83, \h656e,\h95e6, \h7ee6,\hffaa, \h08cf,\hbc21, \he6e8,\h15ef,
  \hd99b,\he7ba, \hce36,\h6f4a, \hd409,\h9fea, \hd67c,\hb029, \hafb2,\ha431, \h3123,\h3f2a, \h3094,\ha5c6, \hc066,\ha235,
  \h37bc,\h4e74, \ha6ca,\h82fc, \hb0d0,\h90e0, \h15d8,\ha733, \h4a98,\h04f1, \hf7da,\hec41, \h0e50,\hcd7f, \h2ff6,\h9117,
  \h8dd6,\h4d76, \h4db0,\hef43, \h544d,\haacc, \hdf04,\h96e4, \he3b5,\hd19e, \h1b88,\h6a4c, \hb81f,\h2cc1, \h7f51,\h6546,
  \h04ea,\h5e9d, \h5d35,\h8c01, \h7374,\h87fa, \h2e41,\h0bfb, \h5a1d,\h67b3, \h52d2,\hdb92, \h3356,\h10e9, \h1347,\hd66d,
  \h8c61,\hd79a, \h7a0c,\ha137, \h8e14,\hf859, \h893c,\h13eb, \hee27,\ha9ce, \h35c9,\h61b7, \hede5,\h1ce1, \h3cb1,\h477a,
  \h59df,\hd29c, \h3f73,\hf255, \h79ce,\h1418, \hbf37,\hc773, \heacd,\hf753, \h5baa,\hfd5f, \h146f,\h3ddf, \h86db,\h4478,
  \h81f3,\hafca, \h3ec4,\h68b9, \h2c34,\h2438, \h5f40,\ha3c2, \h72c3,\h1d16, \h0c25,\he2bc, \h8b49,\h3c28, \h4195,\h0dff,
  \h7101,\ha839, \hdeb3,\h0c08, \h9ce4,\hb4d8, \h90c1,\h5664, \h6184,\hcb7b, \h70b6,\h32d5, \h745c,\h6c48, \h4257,\hb8d0>>

\* _aes_decrypt_table: what a byte at position 1 contributes to a round.
itable1 == <<
  \ha7f4,\h5150, \h6541,\h7e53, \ha417,\h1ac3, \h5e27,\h3a96, \h6bab,\h3bcb, \h459d,\h1ff1, \h58fa,\hacab, \h03e3,\h4b93,
  \hfa30,\h2055, \h6d76,\hadf6, \h76cc,\h8891, \h4c02,\hf525, \hd7e5,\h4ffc, \hcb2a,\hc5d7, \h4435,\h2680, \ha362,\hb58f,
  \h5ab1,\hde49, \h1bba,\h2567, \h0eea,\h4598, \hc0fe,\h5de1, \h752f,\hc302, \hf04c,\h8112, \h9746,\h8da3, \hf9d3,\h6bc6,
  \h5f8f,\h03e7, \h9c92,\h1595, \h7a6d,\hbfeb, \h5952,\h95da, \h83be,\hd42d, \h2174,\h58d3, \h69e0,\h4929, \hc8c9,\h8e44,
  \h89c2,\h756a, \h798e,\hf478, \h3e58,\h996b, \h71b9,\h27dd, \h4fe1,\hbeb6, \had88,\hf017, \hac20,\hc966, \h3ace,\h7db4,
  \h4adf,\h6318, \h311a,\he582, \h3351,\h9760, \h7f53,\h6245, \h7764,\hb1e0, \hae6b,\hbb84, \ha081,\hfe1c, \h2b08,\hf994,
  \h6848,\h7058, \hfd45,\h8f19, \h6cde,\h9487, \hf87b,\h52b7, \hd373,\hab23, \h024b,\h72e2, \h8f1f,\he357, \hab55,\h662a,
  \h28eb,\hb207, \hc2b5,\h2f03, \h7bc5,\h869a, \h0837,\hd3a5, \h8728,\h30f2, \ha5bf,\h23b2, \h6a03,\h02ba, \h8216,\hed5c,
  \h1ccf,\h8a2b, \hb479,\ha792, \hf207,\hf3f0, \he269,\h4ea1, \hf4da,\h65cd, \hbe05,\h06d5, \h6234,\hd11f, \hfea6,\hc48a,
  \h532e,\h349d, \h55f3,\ha2a0, \he18a,\h0532, \hebf6,\ha475, \hec83,\h0b39, \hef60,\h40aa, \h9f71,\h5e06, \h106e,\hbd51,
  \h8a21,\h3ef9, \h06dd,\h963d, \h053e,\hddae, \hbde6,\h4d46, \h8d54,\h91b5, \h5dc4,\h7105, \hd406,\h046f, \h1550,\h60ff,
  \hfb98,\h1924, \he9bd,\hd697, \h4340,\h89cc, \h9ed9,\h6777, \h42e8,\hb0bd, \h8b89,\h0788, \h5b19,\he738, \heec8,\h79db,
  \h0a7c,\ha147, \h0f42,\h7ce9, \h1e84,\hf8c9, \h0000,\h0000, \h8680,\h0983, \hed2b,\h3248, \h7011,\h1eac, \h725a,\h6c4e,
  \hff0e,\hfdfb, \h3885,\h0f56, \hd5ae,\h3d1e, \h392d,\h3627, \hd90f,\h0a64, \ha65c,\h6821, \h545b,\h9bd1, \h2e36,\h243a,
  \h670a,\h0cb1, \he757,\h930f, \h96ee,\hb4d2, \h919b,\h1b9e, \hc5c0,\h804f, \h20dc,\h61a2, \h4b77,\h5a69, \h1a12,\h1c16,
  \hba93,\he20a, \h2aa0,\hc0e5, \he022,\h3c43, \h171b,\h121d, \h0d09,\h0e0b, \hc78b,\hf2ad, \ha8b6,\h2db9, \ha91e,\h14c8,
  \h19f1,\h5785, \h0775,\haf4c, \hdd99,\heebb, \h607f,\ha3fd, \h2601,\hf79f, \hf572,\h5cbc, \h3b66,\h44c5, \h7efb,\h5b34,
  \h2943,\h8b76, \hc623,\hcbdc, \hfced,\hb668, \hf1e4,\hb863, \hdc31,\hd7ca, \h8563,\h4210, \h2297,\h1340, \h11c6,\h8420,
  \h244a,\h857d, \h3dbb,\hd2f8, \h32f9,\hae11, \ha129,\hc76d, \h2f9e,\h1d4b, \h30b2,\hdcf3, \h5286,\h0dec, \he3c1,\h77d0,
  \h16b3,\h2b6c, \hb970,\ha999, \h4894,\h11fa, \h64e9,\h4722, \h8cfc,\ha8c4, \h3ff0,\ha01a, \h2c7d,\h56d8, \h9033,\h22ef,
  \h4e49,\h87c7, \hd138,\hd9c1, \ha2ca,\h8cfe, \h0bd4,\h9836, \h81f5,\ha6cf, \hde7a,\ha528, \h8eb7,\hda26, \hbfad,\h3fa4,
  \h9d3a,\h2ce4, \h9278,\h500d, \hcc5f,\h6a9b, \h467e,\h5462, \h138d,\hf6c2, \hb8d8,\h90e8, \hf739,\h2e5e, \hafc3,\h82f5,
  \h805d,\h9fbe, \h93d0,\h697c, \h2dd5,\h6fa9, \h1225,\hcfb3, \h99ac,\hc83b, \h7d18,\h10a7, \h639c,\he86e, \hbb3b,\hdb7b,
  \h7826,\hcd09, \h1859,\h6ef4, \hb79a,\hec01, \h9a4f,\h83a8, \h6e95,\he665, \he6ff,\haa7e, \hcfbc,\h2108, \he815,\hefe6,
  \h9be7,\hbad9, \h366f,\h4ace, \h099f,\head4, \h7cb0,\h29d6, \hb2a4,\h31af, \h233f,\h2a31, \h94a5,\hc630, \h66a2,\h35c0,
  \hbc4e,\h7437, \hca82,\hfca6, \hd090,\he0b0, \hd8a7,\h3315, \h9804,\hf14a, \hdaec,\h41f7, \h50cd,\h7f0e, \hf691,\h172f,
  \hd64d,\h768d, \hb0ef,\h434d, \h4daa,\hcc54, \h0496,\he4df, \hb5d1,\h9ee3, \h886a,\h4c1b, \h1f2c,\hc1b8, \h5165,\h467f,
  \hea5e,\h9d04, \h358c,\h015d, \h7487,\hfa73, \h410b,\hfb2e, \h1d67,\hb35a, \hd2db,\h9252, \h5610,\he933, \h47d6,\h6d13,
  \h61d7,\h9a8c, \h0ca1,\h377a, \h14f8,\h598e, \h3c13,\heb89, \h27a9,\hceee, \hc961,\hb735, \he51c,\he1ed, \hb147,\h7a3c,
  \hdfd2,\h9c59, \h73f2,\h553f, \hce14,\h1879, \h37c7,\h73bf, \hcdf7,\h53ea, \haafd,\h5f5b, \h6f3d,\hdf14, \hdb44,\h7886,
  \hf3af,\hca81, \hc468,\hb93e, \h3424,\h382c, \h40a3,\hc25f, \hc31d,\h1672, \h25e2,\hbc0c, \h493c,\h288b, \h950d,\hff41,
  \h01a8,\h3971, \hb30c,\h08de, \he4b4,\hd89c, \hc156,\h6490, \h84cb,\h7b61, \hb632,\hd570, \h5c6c,\h4874, \h57b8,\hd042>>

\* _aes_decrypt_table: what a byte at position 2 contributes to a round.
itable2 == <<
  \hf451,\h50a7, \h417e,\h5365, \h171a,\hc3a4, \h273a,\h965e, \hab3b,\hcb6b, \h9d1f,\hf145, \hfaac,\hab58, \he34b,\h9303,
  \h3020,\h55fa, \h76ad,\hf66d, \hcc88,\h9176, \h02f5,\h254c, \he54f,\hfcd7, \h2ac5,\hd7cb, \h3526,\h8044, \h62b5,\h8fa3,
  \hb1de,\h495a, \hba25,\h671b, \hea45,\h980e, \hfe5d,\he1c0, \h2fc3,\h0275, \h4c81,\h12f0, \h468d,\ha397, \hd36b,\hc6f9,
  \h8f03,\he75f, \h9215,\h959c, \h6dbf,\heb7a, \h5295,\hda59, \hbed4,\h2d83, \h7458,\hd321, \he049,\h2969, \hc98e,\h44c8,
  \hc275,\h6a89, \h8ef4,\h7879, \h5899,\h6b3e, \hb927,\hdd71, \he1be,\hb64f, \h88f0,\h17ad, \h20c9,\h66ac, \hce7d,\hb43a,
  \hdf63,\h184a, \h1ae5,\h8231, \h5197,\h6033, \h5362,\h457f, \h64b1,\he077, \h6bbb,\h84ae, \h81fe,\h1ca0, \h08f9,\h942b,
  \h4870,\h5868, \h458f,\h19fd, \hde94,\h876c, \h7b52,\hb7f8, \h73ab,\h23d3, \h4b72,\he202, \h1fe3,\h578f, \h5566,\h2aab,
  \hebb2,\h0728, \hb52f,\h03c2, \hc586,\h9a7b, \h37d3,\ha508, \h2830,\hf287, \hbf23,\hb2a5, \h0302,\hba6a, \h16ed,\h5c82,
  \hcf8a,\h2b1c, \h79a7,\h92b4, \h07f3,\hf0f2, \h694e,\ha1e2, \hda65,\hcdf4, \h0506,\hd5be, \h34d1,\h1f62, \ha6c4,\h8afe,
  \h2e34,\h9d53, \hf3a2,\ha055, \h8a05,\h32e1, \hf6a4,\h75eb, \h830b,\h39ec, \h6040,\haaef, \h715e,\h069f, \h6ebd,\h5110,
  \h213e,\hf98a, \hdd96,\h3d06, \h3edd,\hae05, \he64d,\h46bd, \h5491,\hb58d, \hc471,\h055d, \h0604,\h6fd4, \h5060,\hff15,
  \h9819,\h24fb, \hbdd6,\h97e9, \h4089,\hcc43, \hd967,\h779e, \he8b0,\hbd42, \h8907,\h888b, \h19e7,\h385b, \hc879,\hdbee,
  \h7ca1,\h470a, \h427c,\he90f, \h84f8,\hc91e, \h0000,\h0000, \h8009,\h8386, \h2b32,\h48ed, \h111e,\hac70, \h5a6c,\h4e72,
  \h0efd,\hfbff, \h850f,\h5638, \hae3d,\h1ed5, \h2d36,\h2739, \h0f0a,\h64d9, \h5c68,\h21a6, \h5b9b,\hd154, \h3624,\h3a2e,
  \h0a0c,\hb167, \h5793,\h0fe7, \heeb4,\hd296, \h9b1b,\h9e91, \hc080,\h4fc5, \hdc61,\ha220, \h775a,\h694b, \h121c,\h161a,
  \h93e2,\h0aba, \ha0c0,\he52a, \h223c,\h43e0, \h1b12,\h1d17, \h090e,\h0b0d, \h8bf2,\hadc7, \hb62d,\hb9a8, \h1e14,\hc8a9,
  \hf157,\h8519, \h75af,\h4c07, \h99ee,\hbbdd, \h7fa3,\hfd60, \h01f7,\h9f26, \h725c,\hbcf5, \h6644,\hc53b, \hfb5b,\h347e,
  \h438b,\h7629, \h23cb,\hdcc6, \hedb6,\h68fc, \he4b8,\h63f1, \h31d7,\hcadc, \h6342,\h1085, \h9713,\h4022, \hc684,\h2011,
  \h4a85,\h7d24, \hbbd2,\hf83d, \hf9ae,\h1132, \h29c7,\h6da1, \h9e1d,\h4b2f, \hb2dc,\hf330, \h860d,\hec52, \hc177,\hd0e3,
  \hb32b,\h6c16, \h70a9,\h99b9, \h9411,\hfa48, \he947,\h2264, \hfca8,\hc48c, \hf0a0,\h1a3f, \h7d56,\hd82c, \h3322,\hef90,
  \h4987,\hc74e, \h38d9,\hc1d1, \hca8c,\hfea2, \hd498,\h360b, \hf5a6,\hcf81, \h7aa5,\h28de, \hb7da,\h268e, \had3f,\ha4bf,
  \h3a2c,\he49d, \h7850,\h0d92, \h5f6a,\h9bcc, \h7e54,\h6246, \h8df6,\hc213, \hd890,\he8b8, \h392e,\h5ef7, \hc382,\hf5af,
  \h5d9f,\hbe80, \hd069,\h7c93, \hd56f,\ha92d, \h25cf,\hb312, \hacc8,\h3b99, \h1810,\ha77d, \h9ce8,\h6e63, \h3bdb,\h7bbb,
  \h26cd,\h0978, \h596e,\hf418, \h9aec,\h01b7, \h4f83,\ha89a, \h95e6,\h656e, \hffaa,\h7ee6, \hbc21,\h08cf, \h15ef,\he6e8,
  \he7ba,\hd99b, \h6f4a,\hce36, \h9fea,\hd409, \hb029,\hd67c, \ha431,\hafb2, \h3f2a,\h3123, \ha5c6,\h3094, \ha235,\hc066,
  \h4e74,\h37bc, \h82fc,\ha6ca, \h90e0,\hb0d0, \ha733,\h15d8, \h04f1,\h4a98, \hec41,\hf7da, \hcd7f,\h0e50, \h9117,\h2ff6,
  \h4d76,\h8dd6, \hef43,\h4db0, \haacc,\h544d, \h96e4,\hdf04, \hd19e,\he3b5, \h6a4c,\h1b88, \h2cc1,\hb81f, \h6546,\h7f51,
  \h5e9d,\h04ea, \h8c01,\h5d35, \h87fa,\h7374, \h0bfb,\h2e41, \h67b3,\h5a1d, \hdb92,\h52d2, \h10e9,\h3356, \hd66d,\h1347,
  \hd79a,\h8c61, \ha137,\h7a0c, \hf859,\h8e14, \h13eb,\h893c, \ha9ce,\hee27, \h61b7,\h35c9, \h1ce1,\hede5, \h477a,\h3cb1,
  \hd29c,\h59df, \hf255,\h3f73, \h1418,\h79ce, \hc773,\hbf37, \hf753,\heacd, \hfd5f,\h5baa, \h3ddf,\h146f, \h4478,\h86db,
  \hafca,\h81f3, \h68b9,\h3ec4, \h2438,\h2c34, \ha3c2,\h5f40, \h1d16,\h72c3, \he2bc,\h0c25, \h3c28,\h8b49, \h0dff,\h4195,
  \ha839,\h7101, \h0c08,\hdeb3, \hb4d8,\h9ce4, \h5664,\h90c1, \hcb7b,\h6184, \h32d5,\h70b6, \h6c48,\h745c, \hb8d0,\h4257>>

\* _aes_decrypt_table: what a byte at position 3 contributes to a round.
itable3 == <<
  \h5150,\ha7f4, \h7e53,\h6541, \h1ac3,\ha417, \h3a96,\h5e27, \h3bcb,\h6bab, \h1ff1,\h459d, \hacab,\h58fa, \h4b93,\h03e3,
  \h2055,\hfa30, \hadf6,\h6d76, \h8891,\h76cc, \hf525,\h4c02, \h4ffc,\hd7e5, \hc5d7,\hcb2a, \h2680,\h4435, \hb58f,\ha362,
  \hde49,\h5ab1, \h2567,\h1bba, \h4598,\h0eea, \h5de1,\hc0fe, \hc302,\h752f, \h8112,\hf04c, \h8da3,\h9746, \h6bc6,\hf9d3,
  \h03e7,\h5f8f, \h1595,\h9c92, \hbfeb,\h7a6d, \h95da,\h5952, \hd42d,\h83be, \h58d3,\h2174, \h4929,\h69e0, \h8e44,\hc8c9,
  \h756a,\h89c2, \hf478,\h798e, \h996b,\h3e58, \h27dd,\h71b9, \hbeb6,\h4fe1, \hf017,\had88, \hc966,\hac20, \h7db4,\h3ace,
  \h6318,\h4adf, \he582,\h311a, \h9760,\h3351, \h6245,\h7f53, \hb1e0,\h7764, \hbb84,\hae6b, \hfe1c,\ha081, \hf994,\h2b08,
  \h7058,\h6848, \h8f19,\hfd45, \h9487,\h6cde, \h52b7,\hf87b, \hab23,\hd373, \h72e2,\h024b, \he357,\h8f1f, \h662a,\hab55,
  \hb207,\h28eb, \h2f03,\hc2b5, \h869a,\h7bc5, \hd3a5,\h0837, \h30f2,\h8728, \h23b2,\ha5bf, \h02ba,\h6a03, \hed5c,\h8216,
  \h8a2b,\h1ccf, \ha792,\hb479, \hf3f0,\hf207, \h4ea1,\he269, \h65cd,\hf4da, \h06d5,\hbe05, \hd11f,\h6234, \hc48a,\hfea6,
  \h349d,\h532e, \ha2a0,\h55f3, \h0532,\he18a, \ha475,\hebf6, \h0b39,\hec83, \h40aa,\hef60, \h5e06,\h9f71, \hbd51,\h106e,
  \h3ef9,\h8a21, \h963d,\h06dd, \hddae,\h053e, \h4d46,\hbde6, \h91b5,\h8d54, \h7105,\h5dc4, \h046f,\hd406, \h60ff,\h1550,
  \h1924,\hfb98, \hd697,\he9bd, \h89cc,\h4340, \h6777,\h9ed9, \hb0bd,\h42e8, \h0788,\h8b89, \he738,\h5b19, \h79db,\heec8,
  \ha147,\h0a7c, \h7ce9,\h0f42, \hf8c9,\h1e84, \h0000,\h0000, \h0983,\h8680, \h3248,\hed2b, \h1eac,\h7011, \h6c4e,\h725a,
  \hfdfb,\hff0e, \h0f56,\h3885, \h3d1e,\hd5ae, \h3627,\h392d, \h0a64,\hd90f, \h6821,\ha65c, \h9bd1,\h545b, \h243a,\h2e36,
  \h0cb1,\h670a, \h930f,\he757, \hb4d2,\h96ee, \h1b9e,\h919b, \h804f,\hc5c0, \h61a2,\h20dc, \h5a69,\h4b77, \h1c16,\h1a12,
  \he20a,\hba93, \hc0e5,\h2aa0, \h3c43,\he022, \h121d,\h171b, \h0e0b,\h0d09, \hf2ad,\hc78b, \h2db9,\ha8b6, \h14c8,\ha91e,
  \h5785,\h19f1, \haf4c,\h0775, \heebb,\hdd99, \ha3fd,\h607f, \hf79f,\h2601, \h5cbc,\hf572, \h44c5,\h3b66, \h5b34,\h7efb,
  \h8b76,\h2943, \hcbdc,\hc623, \hb668,\hfced, \hb863,\hf1e4, \hd7ca,\hdc31, \h4210,\h8563, \h1340,\h2297, \h8420,\h11c6,
  \h857d,\h244a, \hd2f8,\h3dbb, \hae11,\h32f9, \hc76d,\ha129, \h1d4b,\h2f9e, \hdcf3,\h30b2, \h0dec,\h5286, \h77d0,\he3c1,
  \h2b6c,\h16b3, \ha999,\hb970, \h11fa,\h4894, \h4722,\h64e9, \ha8c4,\h8cfc, \ha01a,\h3ff0, \h56d8,\h2c7d, \h22ef,\h9033,
  \h87c7,\h4e49, \hd9c1,\hd138, \h8cfe,\ha2ca, \h9836,\h0bd4, \ha6cf,\h81f5, \ha528,\hde7a, \hda26,\h8eb7, \h3fa4,\hbfad,
  \h2ce4,\h9d3a, \h500d,\h9278, \h6a9b,\hcc5f, \h5462,\h467e, \hf6c2,\h138d, \h90e8,\hb8d8, \h2e5e,\hf739, \h82f5,\hafc3,
  \h9fbe,\h805d, \h697c,\h93d0, \h6fa9,\h2dd5, \hcfb3,\h1225, \hc83b,\h99ac, \h10a7,\h7d18, \he86e,\h639c, \hdb7b,\hbb3b,
  \hcd09,\h7826, \h6ef4,\h1859, \hec01,\hb79a, \h83a8,\h9a4f, \he665,\h6e95, \haa7e,\he6ff, \h2108,\hcfbc, \hefe6,\he815,
  \hbad9,\h9be7, \h4ace,\h366f, \head4,\h099f, \h29d6,\h7cb0, \h31af,\hb2a4, \h2a31,\h233f, \hc630,\h94a5, \h35c0,\h66a2,
  \h7437,\hbc4e, \hfca6,\hca82, \he0b0,\hd090, \h3315,\hd8a7, \hf14a,\h9804, \h41f7,\hdaec, \h7f0e,\h50cd, \h172f,\hf691,
  \h768d,\hd64d, \h434d,\hb0ef, \hcc54,\h4daa, \he4df,\h0496, \h9ee3,\hb5d1, \h4c1b,\h886a, \hc1b8,\h1f2c, \h467f,\h5165,
  \h9d04,\hea5e, \h015d,\h358c, \hfa73,\h7487, \hfb2e,\h410b, \hb35a,\h1d67, \h9252,\hd2db, \he933,\h5610, \h6d13,\h47d6,
  \h9a8c,\h61d7, \h377a,\h0ca1, \h598e,\h14f8, \heb89,\h3c13, \hceee,\h27a9, \hb735,\hc961, \he1ed,\he51c, \h7a3c,\hb147,
  \h9c59,\hdfd2, \h553f,\h73f2, \h1879,\hce14, \h73bf,\h37c7, \h53ea,\hcdf7, \h5f5b,\haafd, \hdf14,\h6f3d, \h7886,\hdb44,
  \hca81,\hf3af, \hb93e,\hc468, \h382c,\h3424, \hc25f,\h40a3, \h1672,\hc31d, \hbc0c,\h25e2, \h288b,\h493c, \hff41,\h950d,
  \h3971,\h01a8, \h08de,\hb30c, \hd89c,\he4b4, \h6490,\hc156, \h7b61,\h84cb, \hd570,\hb632, \h4874,\h5c6c, \hd042,\h57b8>>

\* The inverse mixing of a column, for the keys of the decryption.
mtable == <<
  \h0000,\h0000, \h0b0d,\h090e, \h161a,\h121c, \h1d17,\h1b12, \h2c34,\h2438, \h2739,\h2d36, \h3a2e,\h3624, \h3123,\h3f2a,
  \h5868,\h4870, \h5365,\h417e, \h4e72,\h5a6c, \h457f,\h5362, \h745c,\h6c48, \h7f51,\h6546, \h6246,\h7e54, \h694b,\h775a,
  \hb0d0,\h90e0, \hbbdd,\h99ee, \ha6ca,\h82fc, \hadc7,\h8bf2, \h9ce4,\hb4d8, \h97e9,\hbdd6, \h8afe,\ha6c4, \h81f3,\hafca,
  \he8b8,\hd890, \he3b5,\hd19e, \hfea2,\hca8c, \hf5af,\hc382, \hc48c,\hfca8, \hcf81,\hf5a6, \hd296,\heeb4, \hd99b,\he7ba,
  \h7bbb,\h3bdb, \h70b6,\h32d5, \h6da1,\h29c7, \h66ac,\h20c9, \h578f,\h1fe3, \h5c82,\h16ed, \h4195,\h0dff, \h4a98,\h04f1,
  \h23d3,\h73ab, \h28de,\h7aa5, \h35c9,\h61b7, \h3ec4,\h68b9, \h0fe7,\h5793, \h04ea,\h5e9d, \h19fd,\h458f, \h12f0,\h4c81,
  \hcb6b,\hab3b, \hc066,\ha235, \hdd71,\hb927, \hd67c,\hb029, \he75f,\h8f03, \hec52,\h860d, \hf145,\h9d1f, \hfa48,\h9411,
  \h9303,\he34b, \h980e,\hea45, \h8519,\hf157, \h8e14,\hf859, \hbf37,\hc773, \hb43a,\hce7d, \ha92d,\hd56f, \ha220,\hdc61,
  \hf66d,\h76ad, \hfd60,\h7fa3, \he077,\h64b1, \heb7a,\h6dbf, \hda59,\h5295, \hd154,\h5b9b, \hcc43,\h4089, \hc74e,\h4987,
  \hae05,\h3edd, \ha508,\h37d3, \hb81f,\h2cc1, \hb312,\h25cf, \h8231,\h1ae5, \h893c,\h13eb, \h942b,\h08f9, \h9f26,\h01f7,
  \h46bd,\he64d, \h4db0,\hef43, \h50a7,\hf451, \h5baa,\hfd5f, \h6a89,\hc275, \h6184,\hcb7b, \h7c93,\hd069, \h779e,\hd967,
  \h1ed5,\hae3d, \h15d8,\ha733, \h08cf,\hbc21, \h03c2,\hb52f, \h32e1,\h8a05, \h39ec,\h830b, \h24fb,\h9819, \h2ff6,\h9117,
  \h8dd6,\h4d76, \h86db,\h4478, \h9bcc,\h5f6a, \h90c1,\h5664, \ha1e2,\h694e, \haaef,\h6040, \hb7f8,\h7b52, \hbcf5,\h725c,
  \hd5be,\h0506, \hdeb3,\h0c08, \hc3a4,\h171a, \hc8a9,\h1e14, \hf98a,\h213e, \hf287,\h2830, \hef90,\h3322, \he49d,\h3a2c,
  \h3d06,\hdd96, \h360b,\hd498, \h2b1c,\hcf8a, \h2011,\hc684, \h1132,\hf9ae, \h1a3f,\hf0a0, \h0728,\hebb2, \h0c25,\he2bc,
  \h656e,\h95e6, \h6e63,\h9ce8, \h7374,\h87fa, \h7879,\h8ef4, \h495a,\hb1de, \h4257,\hb8d0, \h5f40,\ha3c2, \h544d,\haacc,
  \hf7da,\hec41, \hfcd7,\he54f, \he1c0,\hfe5d, \heacd,\hf753, \hdbee,\hc879, \hd0e3,\hc177, \hcdf4,\hda65, \hc6f9,\hd36b,
  \hafb2,\ha431, \ha4bf,\had3f, \hb9a8,\hb62d, \hb2a5,\hbf23, \h8386,\h8009, \h888b,\h8907, \h959c,\h9215, \h9e91,\h9b1b,
  \h470a,\h7ca1, \h4c07,\h75af, \h5110,\h6ebd, \h5a1d,\h67b3, \h6b3e,\h5899, \h6033,\h5197, \h7d24,\h4a85, \h7629,\h438b,
  \h1f62,\h34d1, \h146f,\h3ddf, \h0978,\h26cd, \h0275,\h2fc3, \h3356,\h10e9, \h385b,\h19e7, \h254c,\h02f5, \h2e41,\h0bfb,
  \h8c61,\hd79a, \h876c,\hde94, \h9a7b,\hc586, \h9176,\hcc88, \ha055,\hf3a2, \hab58,\hfaac, \hb64f,\he1be, \hbd42,\he8b0,
  \hd409,\h9fea, \hdf04,\h96e4, \hc213,\h8df6, \hc91e,\h84f8, \hf83d,\hbbd2, \hf330,\hb2dc, \hee27,\ha9ce, \he52a,\ha0c0,
  \h3cb1,\h477a, \h37bc,\h4e74, \h2aab,\h5566, \h21a6,\h5c68, \h1085,\h6342, \h1b88,\h6a4c, \h069f,\h715e, \h0d92,\h7850,
  \h64d9,\h0f0a, \h6fd4,\h0604, \h72c3,\h1d16, \h79ce,\h1418, \h48ed,\h2b32, \h43e0,\h223c, \h5ef7,\h392e, \h55fa,\h3020,
  \h01b7,\h9aec, \h0aba,\h93e2, \h17ad,\h88f0, \h1ca0,\h81fe, \h2d83,\hbed4, \h268e,\hb7da, \h3b99,\hacc8, \h3094,\ha5c6,
  \h59df,\hd29c, \h52d2,\hdb92, \h4fc5,\hc080, \h44c8,\hc98e, \h75eb,\hf6a4, \h7ee6,\hffaa, \h63f1,\he4b8, \h68fc,\hedb6,
  \hb167,\h0a0c, \hba6a,\h0302, \ha77d,\h1810, \hac70,\h111e, \h9d53,\h2e34, \h965e,\h273a, \h8b49,\h3c28, \h8044,\h3526,
  \he90f,\h427c, \he202,\h4b72, \hff15,\h5060, \hf418,\h596e, \hc53b,\h6644, \hce36,\h6f4a, \hd321,\h7458, \hd82c,\h7d56,
  \h7a0c,\ha137, \h7101,\ha839, \h6c16,\hb32b, \h671b,\hba25, \h5638,\h850f, \h5d35,\h8c01, \h4022,\h9713, \h4b2f,\h9e1d,
  \h2264,\he947, \h2969,\he049, \h347e,\hfb5b, \h3f73,\hf255, \h0e50,\hcd7f, \h055d,\hc471, \h184a,\hdf63, \h1347,\hd66d,
  \hcadc,\h31d7, \hc1d1,\h38d9, \hdcc6,\h23cb, \hd7cb,\h2ac5, \he6e8,\h15ef, \hede5,\h1ce1, \hf0f2,\h07f3, \hfbff,\h0efd,
  \h92b4,\h79a7, \h99b9,\h70a9, \h84ae,\h6bbb, \h8fa3,\h62b5, \hbe80,\h5d9f, \hb58d,\h5491, \ha89a,\h4f83, \ha397,\h468d>>

rcon == <<\h01, \h02, \h04, \h08, \h10, \h20, \h40, \h80, \h1b, \h36>>

\* The key, the text and what is expected of the benchmark.
key == <<
  \hc9, \h95, \h55, \h31, \ha6, \h50, \hd1, \h54, \h7b, \hd8, \hc5, \haa, \ha4, \ha4, \hbd, \hac,
  \h5c, \hea, \h12, \hc7, \hf8, \h83, \hd6, \hb8, \h5d, \hd6, \hcf, \h2d, \h60, \hc8, \ha5, \hf0>>

\* The text: LEN bytes.
plaintext == <<
  \hd7, \h7f, \hb3, \h8c, \h22, \h25, \hc4, \h6f, \hb9, \hd5, \hc9, \h18, \hc0, \h92, \hd0, \h08,
  \h85, \h2a, \hf3, \h68, \hbd, \h84, \haf, \hf2, \h0c, \h8b, \hf5, \h1e, \h51, \h70, \h46, \h70,
  \h9e, \h8b, \hde, \he1, \h86, \ha1, \hf8, \hcd, \h71, \h02, \h9f, \ha1, \h7b, \h44, \hb0, \h82,
  \h40, \h7f, \hce, \hb4, \hbe, \h5d, \hbc, \h8e, \h19, \h43, \h0b, \h3a, \h46, \h69, \ha0, \hcc,
  \hed, \h4f, \h61, \haf, \ha6, \ha9, \h5b, \h47, \h69, \h51, \hd5, \h00, \h77, \h7e, \hde, \h2e,
  \h7e, \ha6, \h3c, \he0, \h33, \hdf, \hed, \h40, \h3f, \h1a, \hc7, \he0, \hc7, \h46, \he3, \h3b,
  \h90, \h4e, \h64, \h55, \h2e, \h8d, \h36, \h3b, \h92, \h9b, \h87, \h6f, \hae, \h94, \h3d, \h0a,
  \hc8, \ha2, \h4e, \h7f, \h5a, \h83, \hec, \h18, \hfd, \h82, \h54, \hc8, \hd8, \hed, \h1e, \h52,
  \h7d, \hca, \hcf, \h4b, \hba, \h31, \h68, \hb9, \h78, \ha3, \hca, \h4e, \h72, \h86, \hb2, \h33,
  \h79, \hcb, \hcd, \ha6, \h43, \ha3, \h9c, \hfa, \hee, \h2a, \hae, \h3b, \h72, \hc6, \h46, \h32,
  \ha5, \h99, \h45, \h92, \h46, \h79, \hdc, \he3, \h3e, \ha9, \h8a, \h11, \h37, \h49, \h85, \he4,
  \h58, \h1a, \h1f, \h6e, \hd7, \haa, \he6, \h0a, \hc4, \h27, \hfd, \h46, \h5c, \h6c, \hb0, \h28,
  \h2e, \h6b, \h84, \h35, \h90, \h1a, \h6d, \h38, \hf2, \h69, \h4a, \hbc, \h96, \hec, \hd7, \h56,
  \h65, \h27, \hee, \ha6, \hb0, \h5f, \h9c, \h70, \h71, \ha5, \h2b, \hec, \h93, \h67, \h16, \hc1,
  \hc4, \hb3, \h43, \h70, \hb5, \h6d, \had, \h95, \h41, \hf0, \h02, \hfc, \h8d, \h58, \h8e, \ha1,
  \h46, \h32, \h34, \h68, \h11, \h8c, \hb3, \h3a, \hdb, \h54, \hbe, \h3a, \hb3, \h38, \h2e, \h7c>>

\* The text encrypted.
expected == <<
  \h0f, \h17, \h00, \h10, \h07, \h82, \h7f, \hf9, \h45, \hda, \h15, \h0e, \h54, \h94, \h8f, \h22,
  \h74, \h9f, \h03, \hcd, \h58, \h1a, \hb2, \h6b, \h9a, \h68, \h05, \he7, \hcb, \h1f, \h75, \had,
  \h51, \h85, \h56, \ha1, \hf6, \hd8, \hb7, \hec, \h9e, \h0d, \hc3, \h48, \h7d, \haa, \hf7, \h99,
  \hc2, \h1d, \hea, \h3f, \h53, \hdb, \ha8, \h84, \hed, \h61, \hc0, \he7, \h38, \had, \hdc, \hb7,
  \h9b, \hfa, \hc0, \hb6, \h88, \h7c, \hf0, \h87, \h25, \h20, \hbc, \h0b, \h03, \h6d, \hb8, \h9b,
  \h10, \hd3, \ha8, \h87, \h38, \hba, \hdb, \h43, \h40, \h02, \h0f, \h89, \h6e, \h11, \h69, \h7e,
  \h15, \h4a, \hc5, \he3, \hb1, \h7a, \h9d, \h3b, \h74, \hbe, \h05, \h58, \h1e, \h40, \h73, \h1d,
  \h83, \ha0, \h45, \h89, \hfc, \hcf, \hc3, \h4e, \ha2, \h52, \hef, \h7e, \h5e, \h2c, \h98, \h38,
  \h26, \h57, \hb4, \h12, \h4e, \h24, \h10, \hac, \h7c, \h89, \h42, \h0d, \h9d, \haf, \h49, \h2f,
  \hc0, \h60, \h75, \h43, \hc5, \hd1, \hcc, \hfd, \h46, \hae, \h4e, \h38, \ha9, \hf3, \h83, \h98,
  \h9f, \hfa, \h0a, \h15, \h05, \h46, \h2a, \h0e, \hbe, \ha8, \hac, \h2d, \h59, \h27, \h2e, \h54,
  \h05, \h77, \h52, \h64, \h39, \h60, \hc4, \h7c, \ha7, \h30, \hb9, \h13, \h3b, \h1f, \hfe, \h37,
  \hb0, \hea, \hfd, \h3d, \h83, \hed, \h7e, \hf2, \hb0, \hf2, \h0a, \h86, \h78, \hb9, \h08, \h1f,
  \hff, \hc0, \h50, \had, \hb8, \h92, \h68, \h19, \h30, \h9c, \h7e, \he5, \h4c, \h57, \h5e, \ha6,
  \h58, \h3a, \h87, \h70, \h80, \h1a, \hcf, \h1e, \he8, \h3b, \h43, \hc6, \he9, \h27, \h47, \hba,
  \h9e, \h58, \h52, \h14, \hc0, \hb7, \hf1, \h77, \h77, \h8f, \h23, \h43, \h49, \h0e, \h24, \hce>>

=============================================================================
